---- MODULE Spec2Model ----
(***************************************************************************)
(* A model of the ECCC water-quality ingestion code: the schema registry   *)
(* (schema.py), the validation engine (validate.py) and the loader         *)
(* (eccc_loader.py).                                                       *)
(*                                                                         *)
(* A table (pandas DataFrame) is a record                                  *)
(*   [columns : sequence of column names (df.columns, ordered),            *)
(*    index   : number of rows (len(df)),                                  *)
(*    dtypes  : column name -> dtype label (str(df[col].dtype)),           *)
(*    data    : column name -> sequence of `index` cells]                  *)
(* A cell is <<>> (NaN / None / NaT) or <<v>> (the value v).               *)
(* A dtype label is a sequence of one-character strings, so that lower()   *)
(* and the substring test of _dtypes_compatible are computed, not assumed. *)
(* A message (an error or a warning) is a sequence of strings: the text of *)
(* the f-string template followed by the values formatted into it.         *)
(***************************************************************************)
EXTENDS Integers, Sequences, FiniteSets, TLC

(***************************************************************************)
(* Generic helpers (Python / pandas primitives).                           *)
(***************************************************************************)
Range(s) == {s[i] : i \in 1..Len(s)}

\* [x for x in s if P(x)], order kept
RECURSIVE FilterSeq(_, _)
FilterSeq(s, keep) ==
    IF s = <<>> THEN <<>>
    ELSE IF Head(s) \in keep THEN <<Head(s)>> \o FilterSeq(Tail(s), keep)
    ELSE FilterSeq(Tail(s), keep)

SetMin(S) == CHOOSE x \in S : \A y \in S : x <= y
SetMax(S) == CHOOSE x \in S : \A y \in S : x >= y

(***************************************************************************)
(* schema.py: the schema registry.                                         *)
(***************************************************************************)
RAW == "raw"
NORMALIZED == "normalized"
SchemaType == {RAW, NORMALIZED}

L_object == <<"o", "b", "j", "e", "c", "t">>
L_string == <<"s", "t", "r", "i", "n", "g">>
L_float64 == <<"f", "l", "o", "a", "t", "6", "4">>
L_float32 == <<"f", "l", "o", "a", "t", "3", "2">>
L_int64 == <<"i", "n", "t", "6", "4">>
L_int32 == <<"i", "n", "t", "3", "2">>
L_Int64 == <<"I", "n", "t", "6", "4">>
L_bool == <<"b", "o", "o", "l">>
L_datetime64_ns == <<"d", "a", "t", "e", "t", "i", "m", "e", "6", "4", "[", "n", "s", "]">>
L_datetime64_ns_UTC == <<"d", "a", "t", "e", "t", "i", "m", "e", "6", "4", "[", "n", "s", ",", " ", "U", "T", "C", "]">>
L_timestamp_ns_pyarrow == <<"t", "i", "m", "e", "s", "t", "a", "m", "p", "[", "n", "s", "]", "[", "p", "y", "a", "r", "r", "o", "w", "]">>
L_DATETIME64_NS == <<"D", "A", "T", "E", "T", "I", "M", "E", "6", "4", "[", "N", "S", "]">>

\* the dtype labels a column can carry (str(df[col].dtype)) or a schema can declare
Labels ==
    {L_object, L_string, L_float64, L_float32, L_int64, L_int32, L_Int64, L_bool,
     L_datetime64_ns, L_datetime64_ns_UTC, L_timestamp_ns_pyarrow, L_DATETIME64_NS}

RAW_REQUIRED_COLUMNS == <<"site_no", "sample_datetime", "value", "variable", "unit">>

RAW_OPTIONAL_COLUMNS ==
    <<"qualifier_flag", "sdl", "mdl", "variable_code", "variable_fr", "qa_status", "sample_id">>

RAW_ALL_COLUMNS == Range(RAW_REQUIRED_COLUMNS \o RAW_OPTIONAL_COLUMNS)

RAW_DTYPES ==
    [site_no |-> L_string, sample_datetime |-> L_datetime64_ns, value |-> L_float64,
     variable |-> L_string, unit |-> L_string, qualifier_flag |-> L_string,
     sdl |-> L_float64, mdl |-> L_float64, variable_code |-> L_string,
     variable_fr |-> L_string, qa_status |-> L_string, sample_id |-> L_string]

NORMALIZED_REQUIRED_COLUMNS == <<"station_id", "timestamp", "parameter", "value", "unit">>

NORMALIZED_OPTIONAL_COLUMNS == <<"qualifier", "qa_status", "sample_id">>

NORMALIZED_ALL_COLUMNS == Range(NORMALIZED_REQUIRED_COLUMNS \o NORMALIZED_OPTIONAL_COLUMNS)

NORMALIZED_DTYPES ==
    [station_id |-> L_string, timestamp |-> L_datetime64_ns, parameter |-> L_string,
     value |-> L_float64, unit |-> L_string, qualifier |-> L_string,
     qa_status |-> L_string, sample_id |-> L_string]

COLUMN_MAPPING_ITEMS_colliding ==
    << <<"site_no", "station_id">>, <<"sample_datetime", "timestamp">>,
       <<"variable", "station_id">>, <<"value", "value">>, <<"unit", "unit">>,
       <<"qualifier_flag", "qualifier">>, <<"qa_status", "qa_status">>,
       <<"sample_id", "sample_id">> >>

\* the dict literal, in insertion order: <<key, value>> pairs
COLUMN_MAPPING_ITEMS ==
    << <<"site_no", "station_id">>, <<"sample_datetime", "timestamp">>,
       <<"variable", "parameter">>, <<"value", "value">>, <<"unit", "unit">>,
       <<"qualifier_flag", "qualifier">>, <<"qa_status", "qa_status">>,
       <<"sample_id", "sample_id">> >>

\* dict(items): a later item overwrites an earlier one with the same key
DictOf(items) ==
    [k \in {items[i][1] : i \in 1..Len(items)} |->
        LET last == SetMax({i \in 1..Len(items) : items[i][1] = k})
        IN  items[last][2]]

COLUMN_MAPPING == DictOf(COLUMN_MAPPING_ITEMS)

\* {v: k for k, v in COLUMN_MAPPING.items()}
REVERSE_COLUMN_MAPPING ==
    DictOf([i \in 1..Len(COLUMN_MAPPING_ITEMS) |->
              <<COLUMN_MAPPING_ITEMS[i][2], COLUMN_MAPPING_ITEMS[i][1]>>])

\* DataConstraints
MIN_YEAR == 1900
MAX_YEAR == 2100
MAX_STATION_ID_LENGTH == 50
VALID_QUALIFIERS == {"<", ">", "~", "E", "U", "nan"}
VALID_QA_STATUS == {"P", "V", "R", "E", "nan"}

(***************************************************************************)
(* validate.py: _dtypes_compatible.                                        *)
(***************************************************************************)
UpperToLower ==
    [A |-> "a", B |-> "b", C |-> "c", D |-> "d", E |-> "e", F |-> "f", G |-> "g",
     H |-> "h", I |-> "i", J |-> "j", K |-> "k", L |-> "l", M |-> "m", N |-> "n",
     O |-> "o", P |-> "p", Q |-> "q", R |-> "r", S |-> "s", T |-> "t", U |-> "u",
     V |-> "v", W |-> "w", X |-> "x", Y |-> "y", Z |-> "z"]

\* str.lower()
Lower(s) == [i \in 1..Len(s) |-> IF s[i] \in DOMAIN UpperToLower THEN UpperToLower[s[i]] ELSE s[i]]

\* needle in s
Contains(needle, s) ==
    \E i \in 1..(Len(s) - Len(needle) + 1) : SubSeq(s, i, i + Len(needle) - 1) = needle

W_datetime == <<"d", "a", "t", "e", "t", "i", "m", "e">>

dtypes_compatible_directionless(actual, expected) ==
    LET a == Lower(actual)
        e == Lower(expected)
        num == {L_float32, L_float64, L_int64, L_int32}
    IN  \/ a = e
        \/ (e \in num /\ a \in num)
        \/ (e \in {L_object, L_string} /\ a \in {L_object, L_string})
        \/ (Contains(W_datetime, e) /\ Contains(W_datetime, a))

dtypes_compatible(actual, expected) ==
    LET a == Lower(actual)
        e == Lower(expected)
    IN  IF a = e THEN TRUE
        ELSE IF e = L_float64 /\ a \in {L_float32, L_float64, L_int64, L_int32} THEN TRUE
        ELSE IF e = L_string /\ a \in {L_object, L_string} THEN TRUE
        ELSE IF Contains(W_datetime, e) /\ Contains(W_datetime, a) THEN TRUE
        ELSE FALSE

(***************************************************************************)
(* validate.py: ValidationResult.                                          *)
(***************************************************************************)
\* ValidationResult(is_valid=v): the default factories give fresh empty containers
ValidationResult(v) == [is_valid |-> v, errors |-> <<>>, warnings |-> <<>>, info |-> <<>>]

add_error_keeps_valid(r, message) == [r EXCEPT !.errors = Append(@, message)]

add_error(r, message) == [r EXCEPT !.errors = Append(@, message), !.is_valid = FALSE]

add_warning(r, message) == [r EXCEPT !.warnings = Append(@, message)]

\* self.info[key] = value
add_info(r, key, value) == [r EXCEPT !.info = (key :> value) @@ @]

\* dict.update(other): other's entries win
DictUpdate(d, other) == other @@ d

(***************************************************************************)
(* pandas primitives on tables.                                            *)
(***************************************************************************)
NaN == <<>>

isna(cell) == cell = NaN

\* col in df.columns
HasColumn(df, col) == col \in Range(df.columns)

\* df.empty: any axis of length 0 (no rows, or no columns)
df_empty_columns_only(df) == Len(df.columns) = 0

df_empty(df) == df.index = 0 \/ Len(df.columns) = 0

\* df[col].isna().sum()
NullCount(df, col) == Cardinality({i \in 1..df.index : isna(df.data[col][i])})

\* df[col].dropna() as the set of positions kept
NonNullRows(df, col) == {i \in 1..df.index : ~isna(df.data[col][i])}

\* df[col].nunique(): distinct non-null values
nunique(df, col) == Cardinality({df.data[col][i][1] : i \in NonNullRows(df, col)})

\* df[col].dropna().unique(): distinct non-null values in order of first appearance
RECURSIVE UniqueInOrder(_, _)
UniqueInOrder(cells, seen) ==
    IF cells = <<>> THEN <<>>
    ELSE IF isna(Head(cells)) \/ Head(cells)[1] \in seen THEN UniqueInOrder(Tail(cells), seen)
    ELSE <<Head(cells)[1]>> \o UniqueInOrder(Tail(cells), seen \cup {Head(cells)[1]})

\* df.duplicated(subset=cols, keep=False).sum(): every row whose key another row has
duplicated_count_all_members(df, cols) ==
    Cardinality({i \in 1..df.index :
        \E j \in (1..df.index) \ {i} : \A c \in Range(cols) : df.data[c][j] = df.data[c][i]})

\* df.duplicated(subset=cols).sum(): rows whose key equals the key of an earlier
\* row (missing values compare equal to each other)
duplicated_count(df, cols) ==
    Cardinality({i \in 1..df.index :
        \E j \in 1..(i - 1) : \A c \in Range(cols) : df.data[c][j] = df.data[c][i]})

\* str(label): the characters joined into one string
RECURSIVE Str(_)
Str(label) == IF label = <<>> THEN "" ELSE Head(label) \o Str(Tail(label))

\* The iteration order of a Python set of strings depends on the process's hash
\* seed: two of the possible orders are modelled, the order of ColumnOrder
\* (seed 0) and its reverse (seed 1).
ColumnOrder ==
    <<"site_no", "sample_datetime", "value", "variable", "unit", "qualifier_flag",
      "sdl", "mdl", "variable_code", "variable_fr", "qa_status", "sample_id",
      "station_id", "timestamp", "parameter", "qualifier", "extra_a", "extra_b">>

Reverse(s) == [i \in 1..Len(s) |-> s[Len(s) + 1 - i]]

SetIter(S, seed) ==
    IF seed = 0 THEN FilterSeq(ColumnOrder, S) ELSE Reverse(FilterSeq(ColumnOrder, S))

(***************************************************************************)
(* validate.py: DataValidator.validate_schema.                             *)
(***************************************************************************)
required_cols_of(schema_type) ==
    IF schema_type = RAW THEN RAW_REQUIRED_COLUMNS ELSE NORMALIZED_REQUIRED_COLUMNS

expected_dtypes_of(schema_type) ==
    IF schema_type = RAW THEN RAW_DTYPES ELSE NORMALIZED_DTYPES

\* [col for col in required_cols if col not in df.columns]
missing_cols_of(df, schema_type) ==
    FilterSeq(required_cols_of(schema_type),
              Range(required_cols_of(schema_type)) \ Range(df.columns))

\* set(df.columns) - set(expected_dtypes.keys())
unexpected_of(df, schema_type) ==
    Range(df.columns) \ DOMAIN expected_dtypes_of(schema_type)

\* the columns of df, in df.columns order, that are declared and whose dtype is
\* not compatible with the declared one
dtype_issue_cols(df, schema_type) ==
    LET expected_dtypes == expected_dtypes_of(schema_type)
        bad == {c \in Range(df.columns) \cap DOMAIN expected_dtypes :
                  ~dtypes_compatible(df.dtypes[c], expected_dtypes[c])}
    IN  FilterSeq(df.columns, bad)

RECURSIVE add_warnings(_, _)
add_warnings(r, messages) ==
    IF messages = <<>> THEN r
    ELSE add_warnings(add_warning(r, Head(messages)), Tail(messages))

schema_type_issues_as_errors(result, df, schema_type) ==
    LET expected_dtypes == expected_dtypes_of(schema_type)
        cols == dtype_issue_cols(df, schema_type)
    IN  IF cols = <<>> THEN result
        ELSE add_error(result, <<"Data type mismatches found:">>)

\* lines 133-149: the dtype loop and its warnings
schema_type_issues(result, df, schema_type) ==
    LET expected_dtypes == expected_dtypes_of(schema_type)
        cols == dtype_issue_cols(df, schema_type)
        issues == [i \in 1..Len(cols) |->
                     <<"  - {col}: expected {expected_dtype}, got {actual_dtype}",
                       cols[i], Str(expected_dtypes[cols[i]]), Str(df.dtypes[cols[i]])>>]
    IN  IF cols = <<>> THEN result
        ELSE add_warnings(add_warning(result, <<"Data type mismatches found:">>), issues)

validate_schema(df, schema_type, hash_seed) ==
    LET r0 == ValidationResult(TRUE)
    IN  IF df_empty(df) THEN add_error(r0, <<"DataFrame is empty (0 rows)">>)
        ELSE
        LET r1 == add_info(add_info(r0, "row_count", df.index),
                           "column_count", Len(df.columns))
            missing_cols == missing_cols_of(df, schema_type)
            r2 == IF missing_cols # <<>>
                  THEN add_info(add_error(r1, <<"Missing required columns: ">> \o missing_cols),
                                "missing_columns", missing_cols)
                  ELSE r1
            unexpected == SetIter(unexpected_of(df, schema_type), hash_seed)
            r3 == IF unexpected # <<>>
                  THEN add_info(add_warning(r2, <<"Unexpected columns found: ">> \o unexpected),
                                "unexpected_columns", unexpected)
                  ELSE r2
        IN  schema_type_issues(r3, df, schema_type)

(***************************************************************************)
(* validate.py: DataValidator.validate_data_quality.                       *)
(*                                                                         *)
(* Time is counted in whole years: a timestamp is the integer year it      *)
(* falls in, and so is the clock (pd.Timestamp.now()).  A textual date is  *)
(* a record [wellformed, year]: a well-formed one names a date of that     *)
(* year, any other is text that pd.to_datetime cannot parse.  Values of    *)
(* the value column are integers.                                          *)
(***************************************************************************)
MIN_VALUE == -1000
MAX_VALUE == 1000000000

critical_cols_of(schema_type) ==
    IF schema_type = NORMALIZED THEN <<"timestamp", "station_id", "parameter", "value">>
    ELSE <<"sample_datetime", "site_no", "variable", "value">>

date_col_of(schema_type) ==
    IF schema_type = NORMALIZED THEN "timestamp" ELSE "sample_datetime"

RECURSIVE GCD(_, _)
GCD(a, b) == IF b = 0 THEN a ELSE GCD(b, a % b)

\* (null_count / len(df)) * 100 as an exact fraction in lowest terms.  The float
\* the code computes compares with 50 and with 10 as the fraction does for every
\* row count below 2^50 (0.5 * 100 and 0.1 * 100 are exactly 50.0 and 10.0).
null_pct_of(null_count, n) ==
    LET g == GCD(null_count * 100, n)
    IN  [num |-> (null_count * 100) \div g, den |-> n \div g]

\* null_pct > threshold
pct_gt_inclusive(pct, threshold) == pct.num >= threshold * pct.den

pct_gt(pct, threshold) == pct.num > threshold * pct.den

null_message(col, null_count) ==
    <<"Column '{col}' has {null_count:,} null values ({null_pct:.1f}%)", col, ToString(null_count)>>

\* lines 173-191: one critical column after the other
RECURSIVE quality_nulls(_, _, _, _)
quality_nulls(acc, df, cols, null_counts) ==
    IF cols = <<>>
    THEN IF null_counts # <<>> THEN add_info(acc, "null_counts", null_counts) ELSE acc
    ELSE
    LET col == Head(cols)
        null_count == NullCount(df, col)
        null_pct == null_pct_of(null_count, df.index)
    IN  IF HasColumn(df, col) /\ null_count > 0
        THEN quality_nulls(
                 IF pct_gt(null_pct, 50) THEN add_error(acc, null_message(col, null_count))
                 ELSE IF pct_gt(null_pct, 10) THEN add_warning(acc, null_message(col, null_count))
                 ELSE acc,
                 df, Tail(cols),
                 (col :> [count |-> null_count, percent |-> null_pct]) @@ null_counts)
        ELSE quality_nulls(acc, df, Tail(cols), null_counts)

\* lines 193-214: the value column's range
quality_values(acc, df) ==
    IF ~HasColumn(df, "value") \/ NonNullRows(df, "value") = {} THEN acc
    ELSE
    LET non_null_values == {df.data["value"][i][1] : i \in NonNullRows(df, "value")}
        min_val == SetMin(non_null_values)
        max_val == SetMax(non_null_values)
        below == Cardinality({i \in NonNullRows(df, "value") : df.data["value"][i][1] < MIN_VALUE})
        above == Cardinality({i \in NonNullRows(df, "value") : df.data["value"][i][1] > MAX_VALUE})
        r1 == add_info(acc, "value_range", [min |-> min_val, max |-> max_val])
        r2 == IF min_val < MIN_VALUE
              THEN add_warning(r1, <<"{count} values below minimum threshold ({MIN_VALUE})",
                                     ToString(below)>>)
              ELSE r1
    IN  IF max_val > MAX_VALUE
        THEN add_warning(r2, <<"{count} values above maximum threshold ({MAX_VALUE})",
                               ToString(above)>>)
        ELSE r2

\* pd.to_datetime(series, errors='coerce') on one cell: a column that already
\* holds timestamps is kept, text is parsed, text that does not parse becomes NaT
to_datetime(cell, dtype) ==
    IF isna(cell) THEN NaN
    ELSE IF Contains(W_datetime, Lower(dtype)) THEN cell
    ELSE IF cell[1].wellformed THEN <<cell[1].year>>
    ELSE NaN

year_checks_swapped(acc, min_year, max_year) ==
    LET r1 == IF min_year < MIN_YEAR
              THEN add_error(acc, <<"Dates before {MIN_YEAR} found (earliest: {min_date.year})",
                                    ToString(min_year)>>)
              ELSE acc
    IN  IF max_year > MAX_YEAR
        THEN add_warning(r1, <<"Dates after {MAX_YEAR} found (latest: {max_date.year})",
                               ToString(max_year)>>)
        ELSE r1

\* the year bounds, left out once the result holds an error
year_checks_unless_invalid(acc, min_year, max_year) ==
    IF ~acc.is_valid THEN acc
    ELSE
    LET r1 == IF min_year < MIN_YEAR
              THEN add_warning(acc, <<"Dates before {MIN_YEAR} found (earliest: {min_date.year})",
                                      ToString(min_year)>>)
              ELSE acc
    IN  IF max_year > MAX_YEAR
        THEN add_error(r1, <<"Dates after {MAX_YEAR} found (latest: {max_date.year})",
                             ToString(max_year)>>)
        ELSE r1

\* lines 238-247: the year bounds
year_checks(acc, min_year, max_year) ==
    LET r1 == IF min_year < MIN_YEAR
              THEN add_warning(acc, <<"Dates before {MIN_YEAR} found (earliest: {min_date.year})",
                                      ToString(min_year)>>)
              ELSE acc
    IN  IF max_year > MAX_YEAR
        THEN add_error(r1, <<"Dates after {MAX_YEAR} found (latest: {max_date.year})",
                             ToString(max_year)>>)
        ELSE r1

\* the date column, a future date taken for an error
quality_dates_future_error(acc, df, schema_type, now) ==
    LET date_col == date_col_of(schema_type)
    IN  IF ~HasColumn(df, date_col) THEN acc
        ELSE
        LET dates == [i \in 1..df.index |-> to_datetime(df.data[date_col][i], df.dtypes[date_col])]
            invalid_dates == Cardinality({i \in 1..df.index : isna(dates[i])})
                             - NullCount(df, date_col)
            r1 == IF invalid_dates > 0
                  THEN add_error(acc, <<"{invalid_dates} datetime values could not be parsed",
                                        ToString(invalid_dates)>>)
                  ELSE acc
            valid_dates == {i \in 1..df.index : ~isna(dates[i])}
        IN  IF valid_dates = {} THEN r1
            ELSE
            LET min_date == SetMin({dates[i][1] : i \in valid_dates})
                max_date == SetMax({dates[i][1] : i \in valid_dates})
                r2 == add_info(r1, "date_range",
                               [min |-> ToString(min_date), max |-> ToString(max_date)])
                r3 == year_checks(r2, min_date, max_date)
                future_count == Cardinality({i \in valid_dates : dates[i][1] > now})
            IN  IF future_count > 0
                THEN add_error(r3, <<"{future_count} timestamps are in the future",
                                     ToString(future_count)>>)
                ELSE r3

\* the date column, the missing dates counted with those that do not parse
quality_dates_counts_missing(acc, df, schema_type, now) ==
    LET date_col == date_col_of(schema_type)
    IN  IF ~HasColumn(df, date_col) THEN acc
        ELSE
        LET dates == [i \in 1..df.index |-> to_datetime(df.data[date_col][i], df.dtypes[date_col])]
            invalid_dates == Cardinality({i \in 1..df.index : isna(dates[i])})
            r1 == IF invalid_dates > 0
                  THEN add_error(acc, <<"{invalid_dates} datetime values could not be parsed",
                                        ToString(invalid_dates)>>)
                  ELSE acc
            valid_dates == {i \in 1..df.index : ~isna(dates[i])}
        IN  IF valid_dates = {} THEN r1
            ELSE
            LET min_date == SetMin({dates[i][1] : i \in valid_dates})
                max_date == SetMax({dates[i][1] : i \in valid_dates})
                r2 == add_info(r1, "date_range",
                               [min |-> ToString(min_date), max |-> ToString(max_date)])
                r3 == year_checks(r2, min_date, max_date)
                future_count == Cardinality({i \in valid_dates : dates[i][1] > now})
            IN  IF future_count > 0
                THEN add_warning(r3, <<"{future_count} timestamps are in the future",
                                       ToString(future_count)>>)
                ELSE r3

\* lines 216-255: the date column
quality_dates(acc, df, schema_type, now) ==
    LET date_col == date_col_of(schema_type)
    IN  IF ~HasColumn(df, date_col) THEN acc
        ELSE
        LET dates == [i \in 1..df.index |-> to_datetime(df.data[date_col][i], df.dtypes[date_col])]
            invalid_dates == Cardinality({i \in 1..df.index : isna(dates[i])})
                             - NullCount(df, date_col)
            r1 == IF invalid_dates > 0
                  THEN add_error(acc, <<"{invalid_dates} datetime values could not be parsed",
                                        ToString(invalid_dates)>>)
                  ELSE acc
            valid_dates == {i \in 1..df.index : ~isna(dates[i])}
        IN  IF valid_dates = {} THEN r1
            ELSE
            LET min_date == SetMin({dates[i][1] : i \in valid_dates})
                max_date == SetMax({dates[i][1] : i \in valid_dates})
                r2 == add_info(r1, "date_range",
                               [min |-> ToString(min_date), max |-> ToString(max_date)])
                r3 == year_checks(r2, min_date, max_date)
                future_count == Cardinality({i \in valid_dates : dates[i][1] > now})
            IN  IF future_count > 0
                THEN add_warning(r3, <<"{future_count} timestamps are in the future",
                                       ToString(future_count)>>)
                ELSE r3

validate_data_quality(df, schema_type, now) ==
    LET r0 == ValidationResult(TRUE)
    IN  IF df_empty(df) THEN add_error(r0, <<"Cannot validate quality of empty DataFrame">>)
        ELSE quality_dates(
                 quality_values(quality_nulls(r0, df, critical_cols_of(schema_type), <<>>), df),
                 df, schema_type, now)

(***************************************************************************)
(* validate.py: DataValidator.validate_business_rules.                     *)
(* Station ids, parameter names and codes are strings.                     *)
(***************************************************************************)
id_cols_of(schema_type) ==
    IF schema_type = NORMALIZED THEN <<"timestamp", "station_id", "parameter">>
    ELSE <<"sample_datetime", "site_no", "variable">>

station_col_of(schema_type) == IF schema_type = NORMALIZED THEN "station_id" ELSE "site_no"

param_col_of(schema_type) == IF schema_type = NORMALIZED THEN "parameter" ELSE "variable"

qual_col_of(schema_type) == IF schema_type = NORMALIZED THEN "qualifier" ELSE "qualifier_flag"

\* lines 274-284
business_duplicates(acc, df, schema_type) ==
    LET id_cols == id_cols_of(schema_type)
        duplicate_count == duplicated_count(df, id_cols)
    IN  IF (\A c \in Range(id_cols) : HasColumn(df, c)) /\ duplicate_count > 0
        THEN add_info(
                 add_warning(acc, <<"{duplicate_count} duplicate records found (same timestamp + station + parameter)",
                                    ToString(duplicate_count)>>),
                 "duplicate_count", duplicate_count)
        ELSE acc

\* the station checks, an oversized id taken for an error
business_stations_length_error(acc, df, schema_type) ==
    LET station_col == station_col_of(schema_type)
    IN  IF ~HasColumn(df, station_col) THEN acc
        ELSE
        LET unique_stations == nunique(df, station_col)
            r1 == add_info(acc, "unique_stations", unique_stations)
            r2 == IF unique_stations = 0 THEN add_error(r1, <<"No unique stations found">>) ELSE r1
            lens == {Len(df.data[station_col][i][1]) : i \in NonNullRows(df, station_col)}
        IN  \* df[station_col].dtype == 'object'; the max of no lengths is NaN, which
            \* compares False
            IF df.dtypes[station_col] = L_object /\ lens # {}
                 /\ SetMax(lens) > MAX_STATION_ID_LENGTH
            THEN add_error(r2, <<"Station IDs exceed max length ({max_len} > {MAX_STATION_ID_LENGTH})",
                                 ToString(SetMax(lens))>>)
            ELSE r2

\* lines 286-301
business_stations(acc, df, schema_type) ==
    LET station_col == station_col_of(schema_type)
    IN  IF ~HasColumn(df, station_col) THEN acc
        ELSE
        LET unique_stations == nunique(df, station_col)
            r1 == add_info(acc, "unique_stations", unique_stations)
            r2 == IF unique_stations = 0 THEN add_error(r1, <<"No unique stations found">>) ELSE r1
            lens == {Len(df.data[station_col][i][1]) : i \in NonNullRows(df, station_col)}
        IN  \* df[station_col].dtype == 'object'; the max of no lengths is NaN, which
            \* compares False
            IF df.dtypes[station_col] = L_object /\ lens # {}
                 /\ SetMax(lens) > MAX_STATION_ID_LENGTH
            THEN add_warning(r2, <<"Station IDs exceed max length ({max_len} > {MAX_STATION_ID_LENGTH})",
                                   ToString(SetMax(lens))>>)
            ELSE r2

\* lines 303-313; the sorted list of the distinct non-null names is given as their set
business_parameters(acc, df, schema_type) ==
    LET param_col == param_col_of(schema_type)
    IN  IF ~HasColumn(df, param_col) THEN acc
        ELSE
        LET unique_params == nunique(df, param_col)
            r1 == add_info(acc, "unique_parameters", unique_params)
            r2 == IF unique_params = 0 THEN add_error(r1, <<"No unique parameters found">>) ELSE r1
        IN  add_info(r2, "parameters", {df.data[param_col][i][1] : i \in NonNullRows(df, param_col)})

\* the codes outside the valid set taken row by row, without unique()
business_codes_every_row(acc, df, col, valid, text) ==
    IF ~HasColumn(df, col) THEN acc
    ELSE
    LET cells == FilterSeq(df.data[col], Range(df.data[col]) \ {NaN})
        codes == [i \in 1..Len(cells) |-> cells[i][1]]
        invalid == FilterSeq(codes, Range(codes) \ valid)
    IN  IF invalid # <<>> THEN add_warning(acc, <<text>> \o invalid) ELSE acc

\* lines 315-336: the codes of column col outside the valid set, one warning for all
business_codes(acc, df, col, valid, text) ==
    IF ~HasColumn(df, col) THEN acc
    ELSE
    LET invalid == FilterSeq(UniqueInOrder(df.data[col], {}),
                             {df.data[col][i][1] : i \in NonNullRows(df, col)} \ valid)
    IN  IF invalid # <<>> THEN add_warning(acc, <<text>> \o invalid) ELSE acc

validate_business_rules(df, schema_type) ==
    LET r0 == ValidationResult(TRUE)
    IN  IF df_empty(df) THEN r0
        ELSE
        LET r1 == business_duplicates(r0, df, schema_type)
            r2 == business_stations(r1, df, schema_type)
            r3 == business_parameters(r2, df, schema_type)
            r4 == business_codes(r3, df, qual_col_of(schema_type), VALID_QUALIFIERS,
                                 "Unknown qualifier codes found: ")
        IN  business_codes(r4, df, "qa_status", VALID_QA_STATUS,
                           "Unknown QA status codes found: ")

(***************************************************************************)
(* validate.py: DataValidator.validate_all.                                *)
(***************************************************************************)
\* lines 357-373: the three sub-results combined
combine_business_first(schema_result, quality_result, business_result) ==
    LET errors == business_result.errors \o schema_result.errors \o quality_result.errors
    IN  [is_valid |-> Len(errors) = 0,
         errors   |-> errors,
         warnings |-> schema_result.warnings \o quality_result.warnings \o business_result.warnings,
         info     |-> DictUpdate(DictUpdate(DictUpdate(<<>>, schema_result.info),
                                            quality_result.info), business_result.info)]

combine(schema_result, quality_result, business_result) ==
    LET combined == ValidationResult(TRUE)
        errors == ((combined.errors \o schema_result.errors) \o quality_result.errors)
                      \o business_result.errors
        warnings == ((combined.warnings \o schema_result.warnings) \o quality_result.warnings)
                        \o business_result.warnings
        info == DictUpdate(DictUpdate(DictUpdate(combined.info, schema_result.info),
                                      quality_result.info), business_result.info)
    IN  [is_valid |-> Len(errors) = 0, errors |-> errors, warnings |-> warnings, info |-> info]

validate_all(df, schema_type, hash_seed, now) ==
    combine(validate_schema(df, schema_type, hash_seed),
            validate_data_quality(df, schema_type, now),
            validate_business_rules(df, schema_type))

(***************************************************************************)
(* eccc_loader.py: ECCCLoader.normalize_columns.                           *)
(***************************************************************************)
\* {k: v for k, v in COLUMN_MAPPING.items() if k in raw_df.columns}, as items
columns_to_keep(raw) ==
    LET idx == {i \in 1..Len(COLUMN_MAPPING_ITEMS) : HasColumn(raw, COLUMN_MAPPING_ITEMS[i][1])}
        order == FilterSeq([i \in 1..Len(COLUMN_MAPPING_ITEMS) |-> i], idx)
    IN  [j \in 1..Len(order) |-> COLUMN_MAPPING_ITEMS[order[j]]]

normalize_columns_keeps_names(raw) ==
    LET keep == columns_to_keep(raw)
        names == [j \in 1..Len(keep) |-> keep[j][1]]
    IN  [columns |-> names,
         index   |-> raw.index,
         dtypes  |-> [c \in Range(names) |-> raw.dtypes[c]],
         data    |-> [c \in Range(names) |-> raw.data[c]]]

\* rename(columns=columns_to_keep) without the selection of the mapped columns
normalize_columns_keeps_all(raw) ==
    LET names == [j \in 1..Len(raw.columns) |->
                    IF raw.columns[j] \in DOMAIN COLUMN_MAPPING
                    THEN COLUMN_MAPPING[raw.columns[j]] ELSE raw.columns[j]]
        source == [n \in Range(names) |->
                     raw.columns[CHOOSE j \in 1..Len(names) : names[j] = n]]
    IN  [columns |-> names,
         index   |-> raw.index,
         dtypes  |-> [n \in Range(names) |-> raw.dtypes[source[n]]],
         data    |-> [n \in Range(names) |-> raw.data[source[n]]]]

\* raw_df[list(columns_to_keep.keys())].copy(), then rename(columns=columns_to_keep)
normalize_columns(raw) ==
    LET keep == columns_to_keep(raw)
        names == [j \in 1..Len(keep) |-> COLUMN_MAPPING[keep[j][1]]]
        source == [n \in Range(names) |->
                     (CHOOSE j \in 1..Len(keep) : COLUMN_MAPPING[keep[j][1]] = n)]
    IN  [columns |-> names,
         index   |-> raw.index,
         dtypes  |-> [n \in Range(names) |-> raw.dtypes[keep[source[n]][1]]],
         data    |-> [n \in Range(names) |-> raw.data[keep[source[n]][1]]]]

(***************************************************************************)
(* eccc_loader.py: the methods of ECCCLoader, each taking the loader's     *)
(* fields and giving them back with what the call returned or raised.      *)
(***************************************************************************)
None == [none |-> TRUE]

Raise(kind, message) == [raised |-> kind, message |-> message]

Return(value) == [raised |-> "", returned |-> value]

\* ECCCLoader(file_path)
new_loader == [raw_df |-> None, normalized_df |-> None, validation_result |-> None]

\* load(): no file gives FileNotFoundError; pd.read_csv raises on a file without
\* columns; the table read is stored before it is tested for emptiness
load(loader_self, source) ==
    IF source = None
    THEN [self |-> loader_self, out |-> Raise("FileNotFoundError", "CSV file not found: {file_path}")]
    ELSE IF Len(source.columns) = 0
    THEN [self |-> loader_self, out |-> Raise("ValueError", "Failed to load CSV: {e}")]
    ELSE
    LET stored == [loader_self EXCEPT !.raw_df = source]
    IN  IF df_empty(stored.raw_df)
        THEN [self |-> stored, out |-> Raise("ValueError", "CSV file is empty")]
        ELSE [self |-> stored, out |-> Return(stored.raw_df)]

\* validate_schema(): the loader's validator is bound to the Raw variant
loader_validate_schema(loader_self, seed) ==
    IF loader_self.raw_df = None
    THEN [self |-> loader_self,
          out |-> Raise("RuntimeError", "Must call load() before validate_schema()")]
    ELSE
    LET stored == [loader_self EXCEPT
                      !.validation_result = validate_schema(loader_self.raw_df, RAW, seed)]
    IN  [self |-> stored, out |-> Return(stored.validation_result)]

\* parse_dates() without its test of raw_df: subscripting None raises TypeError
parse_dates_unguarded(loader_self) ==
    IF loader_self.raw_df = None
    THEN [self |-> loader_self,
          out |-> Raise("TypeError", "'NoneType' object is not subscriptable")]
    ELSE IF ~HasColumn(loader_self.raw_df, "sample_datetime")
    THEN [self |-> loader_self, out |-> Raise("KeyError", "sample_datetime")]
    ELSE
    LET raw == loader_self.raw_df
        parsed == [i \in 1..raw.index |->
                     to_datetime(raw.data["sample_datetime"][i], raw.dtypes["sample_datetime"])]
        stored == [loader_self EXCEPT
                      !.raw_df = [raw EXCEPT !.data["sample_datetime"] = parsed,
                                             !.dtypes["sample_datetime"] = L_datetime64_ns]]
    IN  [self |-> stored, out |-> Return(stored.raw_df)]

\* parse_dates(): the sample_datetime column replaced by its timestamps
parse_dates(loader_self) ==
    IF loader_self.raw_df = None
    THEN [self |-> loader_self,
          out |-> Raise("RuntimeError", "Must call load() before parse_dates()")]
    ELSE IF ~HasColumn(loader_self.raw_df, "sample_datetime")
    THEN [self |-> loader_self, out |-> Raise("KeyError", "sample_datetime")]
    ELSE
    LET raw == loader_self.raw_df
        parsed == [i \in 1..raw.index |->
                     to_datetime(raw.data["sample_datetime"][i], raw.dtypes["sample_datetime"])]
        stored == [loader_self EXCEPT
                      !.raw_df = [raw EXCEPT !.data["sample_datetime"] = parsed,
                                             !.dtypes["sample_datetime"] = L_datetime64_ns]]
    IN  [self |-> stored, out |-> Return(stored.raw_df)]

\* normalize_columns()
loader_normalize_columns(loader_self) ==
    IF loader_self.raw_df = None
    THEN [self |-> loader_self,
          out |-> Raise("RuntimeError", "Must call load() before normalize_columns()")]
    ELSE
    LET stored == [loader_self EXCEPT !.normalized_df = normalize_columns(loader_self.raw_df)]
    IN  [self |-> stored, out |-> Return(stored.normalized_df)]

\* the lines of process() that test the validation: the check left out
schema_gate_open(validation) == Return(validation)

\* lines 143-145 of process(): an invalid validation raises
schema_gate(validation) ==
    IF ~validation.is_valid
    THEN Raise("ValueError", <<"Schema validation failed:">> \o validation.errors)
    ELSE Return(validation)

\* process(): load, validate_schema, parse_dates, normalize_columns; calls lists
\* the methods it ran
process(loader_self, source, seed) ==
    LET loaded == load(loader_self, source)
    IN  IF loaded.out.raised # ""
        THEN [self |-> loaded.self, out |-> loaded.out, calls |-> <<"load">>]
        ELSE
    LET validated == loader_validate_schema(loaded.self, seed)
    IN  IF validated.out.raised # ""
        THEN [self |-> validated.self, out |-> validated.out,
              calls |-> <<"load", "validate_schema">>]
        ELSE IF schema_gate(validated.out.returned).raised # ""
        THEN [self |-> validated.self, out |-> schema_gate(validated.out.returned),
              calls |-> <<"load", "validate_schema">>]
        ELSE
    LET parsed == parse_dates(validated.self)
    IN  IF parsed.out.raised # ""
        THEN [self |-> parsed.self, out |-> parsed.out,
              calls |-> <<"load", "validate_schema", "parse_dates">>]
        ELSE
    LET normalized == loader_normalize_columns(parsed.self)
    IN  IF normalized.out.raised # ""
        THEN [self |-> normalized.self, out |-> normalized.out,
              calls |-> <<"load", "validate_schema", "parse_dates", "normalize_columns">>]
        ELSE [self |-> normalized.self, out |-> Return(normalized.self.normalized_df),
              calls |-> <<"load", "validate_schema", "parse_dates", "normalize_columns">>]

\* the order of a date cell among the cells of its column: timestamps by time,
\* ISO dates as text by their year, other text after every date
DateKey(cell, dtype) ==
    IF Contains(W_datetime, Lower(dtype)) THEN cell[1]
    ELSE IF cell[1].wellformed THEN cell[1].year ELSE 10000

\* series.min() or series.max(): missing values are skipped, NaN when none is left
Extreme(cells, dtype, least) ==
    LET kept == {i \in 1..Len(cells) : ~isna(cells[i])}
    IN  IF kept = {} THEN NaN
        ELSE cells[CHOOSE i \in kept : \A j \in kept :
                       IF least THEN DateKey(cells[i], dtype) <= DateKey(cells[j], dtype)
                       ELSE DateKey(cells[i], dtype) >= DateKey(cells[j], dtype)]

\* sorted(series.unique().tolist()): a missing value among strings cannot be ordered
Sortable(cells) ==
    \/ \A i \in 1..Len(cells) : isna(cells[i])
    \/ \A i \in 1..Len(cells) : ~isna(cells[i])

\* get_summary()
get_summary(loader_self) ==
    LET n == loader_self.normalized_df
    IN  IF n = None
        THEN [self |-> loader_self,
              out |-> Raise("RuntimeError", "Must call process() before get_summary()")]
        ELSE IF ~HasColumn(n, "timestamp")
        THEN [self |-> loader_self, out |-> Raise("KeyError", "timestamp")]
        ELSE IF ~HasColumn(n, "station_id")
        THEN [self |-> loader_self, out |-> Raise("KeyError", "station_id")]
        ELSE IF ~HasColumn(n, "parameter")
        THEN [self |-> loader_self, out |-> Raise("KeyError", "parameter")]
        ELSE IF ~Sortable(n.data["parameter"]) \/ ~Sortable(n.data["station_id"])
        THEN [self |-> loader_self,
              out |-> Raise("TypeError", "'<' not supported between instances")]
        ELSE [self |-> loader_self,
              out |-> Return([total_rows |-> n.index,
                              date_range |-> <<Extreme(n.data["timestamp"], n.dtypes["timestamp"], TRUE),
                                               Extreme(n.data["timestamp"], n.dtypes["timestamp"], FALSE)>>,
                              unique_stations |-> nunique(n, "station_id"),
                              unique_parameters |-> nunique(n, "parameter"),
                              parameters |-> {n.data["parameter"][i][1] :
                                                i \in NonNullRows(n, "parameter")},
                              stations |-> {n.data["station_id"][i][1] :
                                              i \in NonNullRows(n, "station_id")}])]

(***************************************************************************)
(* The tables the model runs on.                                           *)
(***************************************************************************)
MaxRows == 2
MaxAdds == 2
ClockStart == 2019
ClockEnd == 2020

Date(y) == <<[wellformed |-> TRUE, year |-> y]>>
BadDate == <<[wellformed |-> FALSE, year |-> 0]>>

\* a 51-character station id
LongStation == "STATION-0000000000-0000000000-0000000000-0000000000"

\* what pd.read_csv infers for a column that holds a value
CSV_DTYPES ==
    [site_no |-> L_object, sample_datetime |-> L_object, value |-> L_float64,
     variable |-> L_object, unit |-> L_object, qualifier_flag |-> L_object,
     sdl |-> L_float64, mdl |-> L_float64, variable_code |-> L_int64,
     variable_fr |-> L_object, qa_status |-> L_object, sample_id |-> L_object,
     station_id |-> L_object, timestamp |-> L_object, parameter |-> L_object,
     qualifier |-> L_object, extra_a |-> L_object, extra_b |-> L_object]

\* a row without missing values; a column of the Normalized naming holds what its
\* Raw counterpart holds
DefaultRow ==
    [site_no |-> <<"S1">>, sample_datetime |-> Date(2020), value |-> <<5>>,
     variable |-> <<"PH">>, unit |-> <<"MG/L">>, qualifier_flag |-> <<"<">>,
     sdl |-> <<1>>, mdl |-> <<1>>, variable_code |-> <<100>>,
     variable_fr |-> <<"PH">>, qa_status |-> <<"V">>, sample_id |-> <<"A1">>,
     station_id |-> <<"S1">>, timestamp |-> Date(2020), parameter |-> <<"PH">>,
     qualifier |-> <<"<">>, extra_a |-> <<"x">>, extra_b |-> <<"x">>]

\* a row given by its station, date, value, parameter, qualifier and QA status
Row(station, date, value, param, qual, qa) ==
    [DefaultRow EXCEPT !.site_no = station, !.station_id = station,
                       !.sample_datetime = date, !.timestamp = date,
                       !.value = value,
                       !.variable = param, !.parameter = param,
                       !.qualifier_flag = qual, !.qualifier = qual,
                       !.qa_status = qa]

\* a column that holds no value at all is read as float64
InferDtype(col, cells, declared) ==
    IF cells # <<>> /\ \A i \in 1..Len(cells) : isna(cells[i]) THEN L_float64 ELSE declared[col]

MkTable(cols, rows, declared) ==
    LET data == [c \in Range(cols) |-> [i \in 1..Len(rows) |-> rows[i][c]]]
    IN  [columns |-> cols,
         index   |-> Len(rows),
         dtypes  |-> [c \in Range(cols) |-> InferDtype(c, data[c], declared)],
         data    |-> data]

SeqsUpTo(S, n) == UNION {[1..k -> S] : k \in 0..n}

\* rows that trip the three passes in different ways
MixedRows ==
    {Row(<<"S1">>, Date(2020), <<5>>, <<"PH">>, <<"<">>, <<"V">>),
     Row(NaN, BadDate, <<-2000>>, NaN, <<"Z">>, <<"X">>),
     Row(<<LongStation>>, Date(2101), NaN, <<"TURBIDITY">>, NaN, NaN)}

MixedColumns ==
    {<<>>,
     RAW_REQUIRED_COLUMNS,
     <<"site_no", "sample_datetime", "value", "variable", "qualifier_flag", "qa_status", "extra_a">>,
     NORMALIZED_REQUIRED_COLUMNS \o <<"qualifier", "qa_status">>}

MixedTables ==
    {MkTable(cols, rows, CSV_DTYPES) : cols \in MixedColumns, rows \in SeqsUpTo(MixedRows, MaxRows)}

MaxSchemaRows == 1

\* the columns the schema tables are made of: the required columns of both
\* variants, a declared column that is read as int64, and two undeclared ones
SchemaColumns ==
    {"site_no", "sample_datetime", "value", "variable", "unit", "station_id",
     "timestamp", "parameter", "variable_code", "extra_a", "extra_b"}

\* every choice of columns, with no row or with rows
SchemaTables ==
    {MkTable(FilterSeq(ColumnOrder, cs), [i \in 1..n |-> DefaultRow], CSV_DTYPES) :
        cs \in SUBSET SchemaColumns, n \in 0..MaxSchemaRows}

\* a table of every Raw, or of every Normalized, column, with any dtype for its
\* station, value or date column
DtypeTables ==
    {MkTable(cols, <<DefaultRow>>, [CSV_DTYPES EXCEPT ![cl[1]] = cl[2]]) :
        cols \in {RAW_REQUIRED_COLUMNS \o RAW_OPTIONAL_COLUMNS,
                  NORMALIZED_REQUIRED_COLUMNS \o NORMALIZED_OPTIONAL_COLUMNS},
        cl \in {"site_no", "station_id", "value", "sample_datetime", "timestamp"} \X Labels}

MaxNullRows == 10
MaxDateRows == 2

\* the column's own name in the Raw naming, or its Normalized counterpart
Named(st, col) == IF st = NORMALIZED THEN COLUMN_MAPPING[col] ELSE col

\* n rows of two critical columns: a is missing in the first ka rows, b in the last kb
NullTable(st, a, b, n, ka, kb) ==
    MkTable(FilterSeq(critical_cols_of(st), {Named(st, a), Named(st, b)}),
            [i \in 1..n |->
                [DefaultRow EXCEPT ![Named(st, a)] = IF i <= ka THEN NaN ELSE @,
                                   ![Named(st, b)] = IF i > n - kb THEN NaN ELSE @]],
            CSV_DTYPES)

NullTables ==
    {NullTable(st, critical_cols_of(RAW)[ab[1]], critical_cols_of(RAW)[ab[2]],
               nk[1], nk[2], nk[3]) :
        st \in SchemaType,
        ab \in {x \in (1..4) \X (1..4) : x[1] < x[2]},
        nk \in {x \in (1..MaxNullRows) \X (0..MaxNullRows) \X (0..MaxNullRows) :
                  x[2] <= x[1] /\ x[3] <= x[1]}}

\* what a date column read from text can hold
DateTexts == {NaN, BadDate, Date(1899), Date(1900), Date(2020), Date(2100), Date(2101)}

\* what a date column of timestamps (after parse_dates) can hold
DateStamps == {NaN, <<1899>>, <<2020>>, <<2101>>}

DateTable(st, cells, dtype) ==
    MkTable(<<date_col_of(st), "value">>,
            [i \in 1..Len(cells) |-> [DefaultRow EXCEPT ![date_col_of(st)] = cells[i]]],
            [CSV_DTYPES EXCEPT ![date_col_of(st)] = dtype])

DateTextTables ==
    {DateTable(st, cells, L_object) :
        st \in SchemaType, cells \in SeqsUpTo(DateTexts, MaxDateRows) \ {<<>>}}

DateStampTables ==
    {DateTable(st, cells, L_datetime64_ns) :
        st \in SchemaType,
        cells \in {c \in SeqsUpTo(DateStamps, MaxDateRows) :
                     \E i \in 1..Len(c) : ~isna(c[i])}}

MaxNormRows == 3

\* rows of a file: stations, parameters and codes that repeat, differ or are missing
NormalizeRows ==
    {Row(<<"S1">>, Date(2020), <<5>>, <<"PH">>, <<"<">>, <<"V">>),
     Row(<<"S1">>, Date(2020), <<7>>, <<"PH">>, <<"Z">>, <<"X">>),
     Row(<<"S2">>, Date(2020), <<5>>, <<"TURBIDITY">>, NaN, <<"P">>),
     Row(NaN, BadDate, NaN, NaN, NaN, NaN)}

NormalizeColumnSets ==
    {RAW_REQUIRED_COLUMNS,
     RAW_REQUIRED_COLUMNS \o RAW_OPTIONAL_COLUMNS,
     <<"station_id", "extra_a">> \o RAW_REQUIRED_COLUMNS \o <<"qualifier_flag">>,
     <<"qa_status", "unit", "variable", "value", "sample_datetime", "site_no">>,
     <<"site_no", "variable", "sdl", "qualifier_flag">>,
     <<"sdl", "mdl">>}

NormalizeTables ==
    {MkTable(cols, rows, CSV_DTYPES) :
        cols \in NormalizeColumnSets, rows \in SeqsUpTo(NormalizeRows, MaxNormRows)}

MaxLoaderRows == 2

\* rows of a file the loader reads
LoaderRows ==
    {Row(<<"S1">>, Date(2020), <<5>>, <<"PH">>, <<"<">>, <<"V">>),
     Row(<<"S2">>, Date(2101), <<7>>, <<"TURBIDITY">>, <<"Z">>, NaN),
     Row(NaN, BadDate, NaN, NaN, NaN, NaN)}

\* its header: every required column, every Raw column, some required column
\* missing, or no column at all
LoaderColumnSets ==
    {RAW_REQUIRED_COLUMNS,
     RAW_REQUIRED_COLUMNS \o RAW_OPTIONAL_COLUMNS,
     <<"site_no", "sample_datetime", "variable", "value", "extra_a">>,
     <<"site_no", "variable", "sdl", "qualifier_flag">>,
     <<>>}

\* the file at file_path: none, or a table read from text
LoaderFiles ==
    {None} \cup
    {MkTable(cols, rows, CSV_DTYPES) :
        cols \in LoaderColumnSets, rows \in SeqsUpTo(LoaderRows, MaxLoaderRows)}

(***************************************************************************)
(* The state: a caller holding a table, calling the validator of a schema  *)
(* variant on it and receiving a ValidationResult it may go on adding to.  *)
(***************************************************************************)
VARIABLES
    df,             \* the table the caller holds
    hash_seed,      \* the process's string-hash seed (fixes set iteration order)
    now,            \* the clock, in years
    op,             \* the last operation called
    schema_type,    \* the variant bound to the validator of the last call
    calls,          \* the passes the last operation ran, in order
    subs,           \* the results of those passes, in order
    result,         \* what the last call returned: the ValidationResult the caller holds
    adds,           \* how many add_* calls the caller has made on it
    file,           \* the table held by the file at ECCCLoader.file_path, or None
    raw_df,         \* ECCCLoader.raw_df
    normalized_df,  \* ECCCLoader.normalized_df
    validation_result   \* ECCCLoader.validation_result

vars == <<df, hash_seed, now, op, schema_type, calls, subs, result, adds,
          file, raw_df, normalized_df, validation_result>>

loader == <<file, raw_df, normalized_df, validation_result>>

\* the loader's fields as one object
self == [raw_df |-> raw_df, normalized_df |-> normalized_df,
         validation_result |-> validation_result]

InitCommon ==
    /\ now = ClockStart
    /\ op = "new"
    /\ schema_type = RAW
    /\ calls = <<>>
    /\ subs = <<>>
    /\ result = ValidationResult(TRUE)
    /\ adds = 0
    /\ raw_df = None
    /\ normalized_df = None
    /\ validation_result = None

Init ==
    /\ df \in MixedTables
    /\ file = None
    /\ hash_seed = 0
    /\ InitCommon

\* result = DataValidator(st).validate_schema(df)
CallValidateSchema(st) ==
    /\ op' = "validate_schema"
    /\ schema_type' = st
    /\ result' = validate_schema(df, st, hash_seed)
    /\ calls' = <<"validate_schema">>
    /\ subs' = <<>>
    /\ adds' = 0
    /\ UNCHANGED <<df, hash_seed, now>>
    /\ UNCHANGED loader

\* result = DataValidator(st).validate_data_quality(df)
CallValidateDataQuality(st) ==
    /\ op' = "validate_data_quality"
    /\ schema_type' = st
    /\ result' = validate_data_quality(df, st, now)
    /\ calls' = <<"validate_data_quality">>
    /\ subs' = <<>>
    /\ adds' = 0
    /\ UNCHANGED <<df, hash_seed, now>>
    /\ UNCHANGED loader

\* result = DataValidator(st).validate_business_rules(df)
CallValidateBusinessRules(st) ==
    /\ op' = "validate_business_rules"
    /\ schema_type' = st
    /\ result' = validate_business_rules(df, st)
    /\ calls' = <<"validate_business_rules">>
    /\ subs' = <<>>
    /\ adds' = 0
    /\ UNCHANGED <<df, hash_seed, now>>
    /\ UNCHANGED loader

\* the passes validate_all runs, in the order it runs them (lines 353-355)
passes_of_validate_all ==
    <<"validate_schema", "validate_data_quality", "validate_business_rules">>

run_pass(name, d, st, seed, t) ==
    IF name = "validate_schema" THEN validate_schema(d, st, seed)
    ELSE IF name = "validate_data_quality" THEN validate_data_quality(d, st, t)
    ELSE validate_business_rules(d, st)

\* result = DataValidator(st).validate_all(df) (validate_raw_data, validate_normalized_data)
CallValidateAll(st) ==
    LET rs == [i \in 1..3 |-> run_pass(passes_of_validate_all[i], df, st, hash_seed, now)]
    IN  /\ op' = "validate_all"
        /\ schema_type' = st
        /\ calls' = passes_of_validate_all
        /\ subs' = rs
        /\ result' = combine(rs[1], rs[2], rs[3])
        /\ adds' = 0
        /\ UNCHANGED <<df, hash_seed, now>>
        /\ UNCHANGED loader

\* result = ValidationResult(is_valid=True)
NewResult ==
    /\ op # "new"
    /\ op' = "new"
    /\ result' = ValidationResult(TRUE)
    /\ calls' = <<>>
    /\ subs' = <<>>
    /\ adds' = 0
    /\ UNCHANGED <<df, hash_seed, now, schema_type>>
    /\ UNCHANGED loader

CallerMessages == {<<"caller message">>}
CallerNotes == {1, 2}

AddError ==
    /\ adds < MaxAdds
    /\ \E m \in CallerMessages : result' = add_error(result, m)
    /\ adds' = adds + 1
    /\ UNCHANGED <<df, hash_seed, now, op, schema_type, calls, subs>>
    /\ UNCHANGED loader

AddWarning ==
    /\ adds < MaxAdds
    /\ \E m \in CallerMessages : result' = add_warning(result, m)
    /\ adds' = adds + 1
    /\ UNCHANGED <<df, hash_seed, now, op, schema_type, calls, subs>>
    /\ UNCHANGED loader

AddInfo ==
    /\ adds < MaxAdds
    /\ \E v \in CallerNotes : result' = add_info(result, "note", v)
    /\ adds' = adds + 1
    /\ UNCHANGED <<df, hash_seed, now, op, schema_type, calls, subs>>
    /\ UNCHANGED loader

\* time passes
Tick ==
    /\ now < ClockEnd
    /\ now' = now + 1
    /\ UNCHANGED <<df, hash_seed, op, schema_type, calls, subs, result, adds>>
    /\ UNCHANGED loader

Next ==
    \/ \E st \in SchemaType : CallValidateSchema(st)
    \/ \E st \in SchemaType : CallValidateDataQuality(st)
    \/ \E st \in SchemaType : CallValidateBusinessRules(st)
    \/ \E st \in SchemaType : CallValidateAll(st)
    \/ NewResult
    \/ AddError
    \/ AddWarning
    \/ AddInfo
    \/ Tick

Spec == Init /\ [][Next]_vars

\* validate_schema on every choice of columns
InitSchema ==
    /\ df \in SchemaTables
    /\ file = None
    /\ hash_seed \in {0, 1}
    /\ InitCommon

NextSchema == \E st \in SchemaType : CallValidateSchema(st)

SpecSchema == InitSchema /\ [][NextSchema]_vars

\* validate_data_quality on tables of missing values and of dates
InitQuality ==
    /\ (df \in NullTables \/ df \in DateTextTables \/ df \in DateStampTables)
    /\ file = None
    /\ hash_seed = 0
    /\ InitCommon

NextQuality ==
    \/ \E st \in SchemaType : CallValidateDataQuality(st)
    \/ Tick

SpecQuality == InitQuality /\ [][NextQuality]_vars

\* takes the loader's fields from what a method gave back
Stored(done) ==
    /\ raw_df' = done.self.raw_df
    /\ normalized_df' = done.self.normalized_df
    /\ validation_result' = done.self.validation_result

\* loader.load()
Load ==
    LET done == load(self, file)
    IN  /\ op' = "load"
        /\ raw_df' = done.self.raw_df
        /\ result' = done.out
        /\ calls' = <<"load">>
        /\ subs' = <<>>
        /\ adds' = 0
        /\ UNCHANGED <<df, hash_seed, now, schema_type, file, normalized_df, validation_result>>

\* loader.normalize_columns()
NormalizeColumns ==
    LET done == loader_normalize_columns(self)
    IN  /\ op' = "normalize_columns"
        /\ Stored(done)
        /\ result' = done.out
        /\ calls' = <<"normalize_columns">>
        /\ subs' = <<>>
        /\ adds' = 0
        /\ UNCHANGED <<df, hash_seed, now, schema_type, file>>

\* loader.validate_schema()
LoaderValidateSchema ==
    LET done == loader_validate_schema(self, hash_seed)
    IN  /\ op' = "loader.validate_schema"
        /\ Stored(done)
        /\ result' = done.out
        /\ calls' = <<"validate_schema">>
        /\ subs' = <<>>
        /\ adds' = 0
        /\ UNCHANGED <<df, hash_seed, now, schema_type, file>>

\* loader.parse_dates()
ParseDates ==
    LET done == parse_dates(self)
    IN  /\ op' = "parse_dates"
        /\ Stored(done)
        /\ result' = done.out
        /\ calls' = <<"parse_dates">>
        /\ subs' = <<>>
        /\ adds' = 0
        /\ UNCHANGED <<df, hash_seed, now, schema_type, file>>

\* loader.get_summary()
GetSummary ==
    LET done == get_summary(self)
    IN  /\ op' = "get_summary"
        /\ Stored(done)
        /\ result' = done.out
        /\ calls' = <<"get_summary">>
        /\ subs' = <<>>
        /\ adds' = 0
        /\ UNCHANGED <<df, hash_seed, now, schema_type, file>>

\* loader.process() (load_eccc_data)
Process ==
    LET done == process(self, file, hash_seed)
    IN  /\ op' = "process"
        /\ Stored(done)
        /\ result' = done.out
        /\ calls' = done.calls
        /\ subs' = <<>>
        /\ adds' = 0
        /\ UNCHANGED <<df, hash_seed, now, schema_type, file>>

\* the caller goes on with loader.normalized_df
HoldNormalized ==
    /\ normalized_df # None
    /\ df # normalized_df
    /\ op' = "new"
    /\ df' = normalized_df
    /\ result' = ValidationResult(TRUE)
    /\ calls' = <<>>
    /\ subs' = <<>>
    /\ adds' = 0
    /\ UNCHANGED <<hash_seed, now, schema_type, file, raw_df, normalized_df, validation_result>>

InitNormalize ==
    /\ file \in NormalizeTables
    /\ df = file
    /\ hash_seed = 0
    /\ InitCommon

NextNormalize ==
    \/ Load
    \/ NormalizeColumns
    \/ HoldNormalized
    \/ \E st \in SchemaType : CallValidateSchema(st)
    \/ \E st \in SchemaType : CallValidateBusinessRules(st)

SpecNormalize == InitNormalize /\ [][NextNormalize]_vars

\* a loader on a file, its methods called in any order
InitLoader ==
    /\ file \in LoaderFiles
    /\ df = MkTable(<<>>, <<>>, CSV_DTYPES)
    /\ hash_seed = 0
    /\ InitCommon

NextLoader ==
    \/ Load
    \/ LoaderValidateSchema
    \/ ParseDates
    \/ NormalizeColumns
    \/ Process
    \/ GetSummary

SpecLoader == InitLoader /\ [][NextLoader]_vars

\* result = DataValidator._dtypes_compatible(actual, expected), with its arguments
CallDtypesCompatible(actual, expected) ==
    /\ op' = "_dtypes_compatible"
    /\ result' = [actual |-> actual, expected |-> expected,
                  compatible |-> dtypes_compatible(actual, expected)]
    /\ calls' = <<>>
    /\ subs' = <<>>
    /\ adds' = 0
    /\ UNCHANGED <<df, hash_seed, now, schema_type>>
    /\ UNCHANGED loader

InitDtypes ==
    /\ df \in DtypeTables
    /\ file = None
    /\ hash_seed = 0
    /\ InitCommon

NextDtypes ==
    \/ \E st \in SchemaType : CallValidateSchema(st)
    \/ \E actual \in Labels, expected \in Labels : CallDtypesCompatible(actual, expected)

SpecDtypes == InitDtypes /\ [][NextDtypes]_vars

(***************************************************************************)
(* Properties.                                                             *)
(***************************************************************************)
IsResult(r) == DOMAIN r = {"is_valid", "errors", "warnings", "info"}

\* C1: a ValidationResult that started valid and empty is valid exactly when its
\* error list is empty: after any add_error / add_warning / add_info calls, and
\* as returned by validate_schema, validate_data_quality, validate_business_rules
\* and validate_all, for either variant.
C1_ValidIffNoErrors ==
    /\ IsResult(result)
    /\ result.is_valid <=> (result.errors = <<>>)
    /\ \A i \in 1..Len(subs) : subs[i].is_valid <=> (subs[i].errors = <<>>)

\* a fresh result the caller added an error and then something else to
C1_Witness ==
    /\ op = "new"
    /\ adds = 2
    /\ Len(result.errors) = 1
    /\ ~result.is_valid
    /\ (result.warnings # <<>> \/ result.info # <<>>)

\* the info maps overlaid in order: a key holds the value of the last map that has it
Overlay(maps) ==
    [k \in UNION {DOMAIN maps[i] : i \in 1..Len(maps)} |->
        maps[SetMax({i \in 1..Len(maps) : k \in DOMAIN maps[i]})][k]]

\* C2: validate_all runs validate_schema, validate_data_quality and
\* validate_business_rules once each, in that order, on any table; its errors are
\* the three error lists concatenated in that order, its warnings likewise, its
\* info the three info maps overlaid in that order, and it is valid exactly when
\* the three sub-results are.
C2_ValidateAllCombines ==
    (op = "validate_all" /\ adds = 0) =>
        /\ calls = <<"validate_schema", "validate_data_quality", "validate_business_rules">>
        /\ Len(subs) = 3
        /\ subs[1] = validate_schema(df, schema_type, hash_seed)
        /\ \E t \in ClockStart..now : subs[2] = validate_data_quality(df, schema_type, t)
        /\ subs[3] = validate_business_rules(df, schema_type)
        /\ result.errors = subs[1].errors \o subs[2].errors \o subs[3].errors
        /\ result.warnings = subs[1].warnings \o subs[2].warnings \o subs[3].warnings
        /\ result.info = Overlay(<<subs[1].info, subs[2].info, subs[3].info>>)
        /\ result.is_valid <=> (subs[1].is_valid /\ subs[2].is_valid /\ subs[3].is_valid)

\* validate_all on a table for which each of the three passes reports an error
\* and a warning
C2_Witness ==
    /\ op = "validate_all"
    /\ adds = 0
    /\ \A i \in 1..3 : subs[i].errors # <<>> /\ subs[i].warnings # <<>>
    /\ Len(result.errors) >= 3
    /\ ~result.is_valid

\* C3: validate_schema of a table with zero rows, whatever its columns and the
\* variant, is invalid with exactly one error, no warning, and none of the info
\* keys row_count, column_count, missing_columns, unexpected_columns.
C3_ZeroRowsOneError ==
    (op = "validate_schema" /\ df.index = 0) =>
        /\ ~result.is_valid
        /\ Len(result.errors) = 1
        /\ result.warnings = <<>>
        /\ DOMAIN result.info \cap
             {"row_count", "column_count", "missing_columns", "unexpected_columns"} = {}

\* a table of zero rows that lacks a required column and has an undeclared one
C3_Witness ==
    /\ op = "validate_schema"
    /\ df.index = 0
    /\ "extra_a" \in Range(df.columns)
    /\ "value" \in Range(df.columns)
    /\ "unit" \notin Range(df.columns)
    /\ Len(result.errors) = 1

\* the required columns of the variant that the table lacks
MissingRequired(d, st) == Range(required_cols_of(st)) \ Range(d.columns)

\* position of a name in the variant's declared list of required columns
RequiredPos(st, name) ==
    CHOOSE i \in 1..Len(required_cols_of(st)) : required_cols_of(st)[i] = name

\* names holds every missing required column once, in declared order, and nothing else
ListsMissing(names, d, st) ==
    /\ Range(names) = MissingRequired(d, st)
    /\ Len(names) = Cardinality(MissingRequired(d, st))
    /\ \A i \in 1..Len(names) : \A j \in 1..Len(names) :
          i < j => RequiredPos(st, names[i]) < RequiredPos(st, names[j])

\* C4: validate_schema of a table with at least one row that lacks a required
\* column of the variant is invalid with exactly one missing-columns error that
\* lists every missing required column once, in the declared order, and no present
\* column; info key missing_columns holds the same list.
C4_MissingColumnsListed ==
    (op = "validate_schema" /\ df.index > 0 /\ MissingRequired(df, schema_type) # {}) =>
        /\ ~result.is_valid
        /\ Len(result.errors) = 1
        /\ Head(result.errors[1]) = "Missing required columns: "
        /\ ListsMissing(Tail(result.errors[1]), df, schema_type)
        /\ "missing_columns" \in DOMAIN result.info
        /\ result.info["missing_columns"] = Tail(result.errors[1])

\* the declared columns of the table whose dtype the predicate rejects
Mismatching(d, st) ==
    {c \in Range(d.columns) \cap DOMAIN expected_dtypes_of(st) :
        ~dtypes_compatible(d.dtypes[c], expected_dtypes_of(st)[c])}

\* the columns of the table outside the variant's known set
Undeclared(d, st) ==
    Range(d.columns) \ (IF st = RAW THEN RAW_ALL_COLUMNS ELSE NORMALIZED_ALL_COLUMNS)

\* C5: validate_schema is invalid exactly when the table has zero rows or lacks a
\* required column; undeclared columns add one warning, mismatching dtypes one
\* summary warning and one warning per column, and neither adds an error.
C5_ErrorsOnlyForEmptyOrMissing ==
    op = "validate_schema" =>
        /\ ~result.is_valid <=> (df.index = 0 \/ MissingRequired(df, schema_type) # {})
        /\ df.index > 0 =>
             /\ Len(result.errors) = (IF MissingRequired(df, schema_type) # {} THEN 1 ELSE 0)
             /\ Len(result.warnings) =
                  (IF Undeclared(df, schema_type) # {} THEN 1 ELSE 0)
                  + (IF Mismatching(df, schema_type) # {}
                     THEN 1 + Cardinality(Mismatching(df, schema_type)) ELSE 0)

\* a valid result for a table with undeclared columns and a mismatching dtype
C5_Witness ==
    /\ op = "validate_schema"
    /\ result.is_valid
    /\ Cardinality(Undeclared(df, schema_type)) >= 2
    /\ Mismatching(df, schema_type) # {}
    /\ Len(result.warnings) >= 3

\* the rule of the dtype-compatibility predicate, labels compared in lower case
CompatibleRule(actual, expected) ==
    LET a == Lower(actual)
        e == Lower(expected)
    IN  \/ a = e
        \/ (e = L_float64 /\ a \in {L_int32, L_int64, L_float32, L_float64})
        \/ (e = L_string /\ a \in {L_string, L_object})
        \/ (Contains(W_datetime, a) /\ Contains(W_datetime, e))

\* the type-mismatch warning validate_schema gives for column c
MismatchWarning(d, st, c) ==
    <<"  - {col}: expected {expected_dtype}, got {actual_dtype}",
      c, Str(expected_dtypes_of(st)[c]), Str(d.dtypes[c])>>

IsNullMessage(m, c) ==
    /\ Len(m) = 3
    /\ m[1] = "Column '{col}' has {null_count:,} null values ({null_pct:.1f}%)"
    /\ m[2] = c

\* how many messages of the list are null messages of column c
NullMessages(messages, c) == Cardinality({i \in 1..Len(messages) : IsNullMessage(messages[i], c)})

\* C6: in validate_data_quality on N > 0 rows, a present critical column with k
\* nulls gets exactly one error and no warning if 100k > 50N, exactly one warning
\* and no error if 10N < 100k <= 50N, and nothing if 100k <= 10N (5 of 10 warns,
\* 6 of 10 is an error, 1 of 10 is silent).
C6_NullThresholds ==
    (op = "validate_data_quality" /\ df.index > 0) =>
        \A c \in Range(critical_cols_of(schema_type)) \cap Range(df.columns) :
            LET k == NullCount(df, c)
                n == df.index
                e == NullMessages(result.errors, c)
                w == NullMessages(result.warnings, c)
            IN  /\ 100 * k > 50 * n => (e = 1 /\ w = 0)
                /\ (10 * n < 100 * k /\ 100 * k <= 50 * n) => (e = 0 /\ w = 1)
                /\ 100 * k <= 10 * n => (e = 0 /\ w = 0)
                /\ (e = 1 \/ w = 1) =>
                     \E i \in 1..Len(result.errors \o result.warnings) :
                        (result.errors \o result.warnings)[i] = null_message(c, k)

\* ten rows, one critical column with 5 nulls (a warning), another with 6 (an error)
C6_Witness ==
    /\ op = "validate_data_quality"
    /\ df.index = 10
    /\ \E a \in Range(df.columns), b \in Range(df.columns) :
          /\ {a, b} \subseteq Range(critical_cols_of(schema_type))
          /\ NullCount(df, a) = 5
          /\ NullCount(df, b) = 6
          /\ NullMessages(result.warnings, a) = 1
          /\ NullMessages(result.errors, b) = 1

\* the years of the dates of the variant's date column that parse
ParsedYears(d, st) ==
    LET col == d.data[date_col_of(st)]
    IN  IF Contains(W_datetime, Lower(d.dtypes[date_col_of(st)]))
        THEN {col[i][1] : i \in {j \in 1..d.index : col[j] # NaN}}
        ELSE {col[i][1].year : i \in {j \in 1..d.index : col[j] # NaN /\ col[j][1].wellformed}}

HasMessage(messages, text) == \E i \in 1..Len(messages) : messages[i][1] = text

\* C7: in validate_data_quality with the date column present and a date that
\* parses, a year before 1900 gives a warning and no error of its own, a year
\* after 2100 gives an error, and a table with a date of 1899 and one of 2101
\* gets both and is invalid.
C7_YearBounds ==
    (/\ op = "validate_data_quality"
     /\ ~df_empty(df)
     /\ HasColumn(df, date_col_of(schema_type))
     /\ ParsedYears(df, schema_type) # {}) =>
        LET years == ParsedYears(df, schema_type)
            before == "Dates before {MIN_YEAR} found (earliest: {min_date.year})"
            after == "Dates after {MAX_YEAR} found (latest: {max_date.year})"
        IN  /\ ~HasMessage(result.errors, before)
            /\ (\E y \in years : y < MIN_YEAR) <=> HasMessage(result.warnings, before)
            /\ (\E y \in years : y > MAX_YEAR) <=> HasMessage(result.errors, after)
            /\ ~HasMessage(result.warnings, after)
            /\ (\E y \in years : y > MAX_YEAR) => ~result.is_valid
            /\ ((\E y \in years : y < MIN_YEAR) /\ (\A y \in years : y <= MAX_YEAR)
                /\ \A i \in 1..Len(result.errors) :
                      result.errors[i][1] \notin
                         {"{invalid_dates} datetime values could not be parsed",
                          "Column '{col}' has {null_count:,} null values ({null_pct:.1f}%)"})
               => result.is_valid
            /\ ({1899, 2101} \subseteq years) =>
                  /\ HasMessage(result.warnings, before)
                  /\ HasMessage(result.errors, after)
                  /\ ~result.is_valid

\* a table holding a date of 1899 and a date of 2101
C7_Witness ==
    /\ op = "validate_data_quality"
    /\ HasColumn(df, date_col_of(schema_type))
    /\ df.dtypes[date_col_of(schema_type)] = L_object
    /\ ParsedYears(df, schema_type) = {1899, 2101}
    /\ Len(result.errors) = 1
    /\ ~result.is_valid

\* the entries of a result's info under the given keys
InfoUnder(r, keys) == [k \in keys \cap DOMAIN r.info |-> r.info[k]]

CardinalityKeys == {"unique_stations", "unique_parameters", "parameters", "duplicate_count"}

\* C8: for a Raw table that passes validate_schema as Raw, the table made by
\* normalize_columns, validated by validate_business_rules as Normalized, records
\* the same unique_stations, unique_parameters, parameters and duplicate_count as
\* the original table validated as Raw.
C8_RoundTripCardinalities ==
    (/\ raw_df # None
     /\ normalized_df # None
     /\ validate_schema(raw_df, RAW, hash_seed).is_valid) =>
        /\ InfoUnder(validate_business_rules(normalized_df, NORMALIZED), CardinalityKeys)
             = InfoUnder(validate_business_rules(raw_df, RAW), CardinalityKeys)
        /\ {"unique_stations", "unique_parameters", "parameters"}
             \subseteq DOMAIN validate_business_rules(raw_df, RAW).info
        /\ (op = "validate_business_rules" /\ schema_type = NORMALIZED /\ df = normalized_df) =>
              InfoUnder(result, CardinalityKeys)
                = InfoUnder(validate_business_rules(raw_df, RAW), CardinalityKeys)

\* the normalized table of a Raw-valid file with two stations and a duplicate key,
\* validated as Normalized
C8_Witness ==
    /\ raw_df # None
    /\ normalized_df # None
    /\ validate_schema(raw_df, RAW, hash_seed).is_valid
    /\ op = "validate_business_rules"
    /\ schema_type = NORMALIZED
    /\ df = normalized_df
    /\ "duplicate_count" \in DOMAIN result.info
    /\ result.info["unique_stations"] = 1
    /\ result.info["unique_parameters"] = 1

Injective(f) == \A a \in DOMAIN f : \A b \in DOMAIN f : f[a] = f[b] => a = b

Image(f) == {f[a] : a \in DOMAIN f}

\* what normalize_columns makes of the loaded table, given the mapping's domain
RenamedThroughMapping ==
    normalized_df # None =>
        /\ Range(normalized_df.columns)
             = {COLUMN_MAPPING[c] : c \in Range(raw_df.columns) \cap DOMAIN COLUMN_MAPPING}
        /\ \A c \in Range(raw_df.columns) \cap DOMAIN COLUMN_MAPPING :
              /\ COLUMN_MAPPING[c] \in DOMAIN normalized_df.data
              /\ normalized_df.data[COLUMN_MAPPING[c]] = raw_df.data[c]

InverseLaws ==
    /\ \A c \in DOMAIN COLUMN_MAPPING :
          /\ COLUMN_MAPPING[c] \in DOMAIN REVERSE_COLUMN_MAPPING
          /\ REVERSE_COLUMN_MAPPING[COLUMN_MAPPING[c]] = c
    /\ \A n \in NORMALIZED_ALL_COLUMNS :
          /\ n \in DOMAIN REVERSE_COLUMN_MAPPING
          /\ REVERSE_COLUMN_MAPPING[n] \in DOMAIN COLUMN_MAPPING
          /\ COLUMN_MAPPING[REVERSE_COLUMN_MAPPING[n]] = n

\* C9 as stated: the column mapping is one-to-one and defined on every Raw column,
\* required and optional, with Normalized known columns as values, and the reverse
\* mapping is its inverse; so normalize_columns keeps every Raw column of a table.
C9_MappingTotalOnRaw ==
    normalized_df # None =>
        /\ RAW_ALL_COLUMNS \subseteq DOMAIN COLUMN_MAPPING
        /\ Injective(COLUMN_MAPPING)
        /\ Image(COLUMN_MAPPING) \subseteq NORMALIZED_ALL_COLUMNS
        /\ InverseLaws
        /\ Cardinality(Range(normalized_df.columns))
             = Cardinality(Range(raw_df.columns) \cap RAW_ALL_COLUMNS)

\* C9 as amended: the column mapping is one-to-one and defined on the required Raw
\* columns and on qualifier_flag, qa_status and sample_id, but on no other Raw
\* column (sdl, mdl, variable_code, variable_fr are not mapped, and normalize_columns
\* drops them); its values are exactly the Normalized known columns; and the
\* reverse mapping is its inverse.
C9_MappingOneToOneOnMapped ==
    /\ DOMAIN COLUMN_MAPPING
         = Range(RAW_REQUIRED_COLUMNS) \cup {"qualifier_flag", "qa_status", "sample_id"}
    /\ RAW_ALL_COLUMNS \ DOMAIN COLUMN_MAPPING = {"sdl", "mdl", "variable_code", "variable_fr"}
    /\ Injective(COLUMN_MAPPING)
    /\ Image(COLUMN_MAPPING) = NORMALIZED_ALL_COLUMNS
    /\ InverseLaws
    /\ RenamedThroughMapping

\* normalize_columns has run on a table of every Raw column
C9_Witness ==
    /\ op = "normalize_columns"
    /\ raw_df # None
    /\ Range(raw_df.columns) = RAW_ALL_COLUMNS
    /\ normalized_df # None
    /\ Range(normalized_df.columns) = NORMALIZED_ALL_COLUMNS
    /\ normalized_df.index > 0

\* the error kind of a call made in the wrong state of the loader; errors about
\* the data are ValueError, FileNotFoundError or entries of a ValidationResult
StateError == "RuntimeError"

LoaderUnchanged ==
    /\ raw_df' = raw_df
    /\ normalized_df' = normalized_df
    /\ validation_result' = validation_result

\* C11: on a loader that holds no raw table, validate_schema, parse_dates and
\* normalize_columns each raise the state error, return no ValidationResult and
\* leave raw_df, normalized_df and validation_result as they were; get_summary
\* raises the state error whenever the loader holds no normalized table.
C11_StateErrors ==
    [][/\ (raw_df = None
            /\ op' \in {"loader.validate_schema", "parse_dates", "normalize_columns"}) =>
              /\ result'.raised = StateError
              /\ ~IsResult(result')
              /\ validation_result' = None
              /\ LoaderUnchanged
       /\ (normalized_df = None /\ op' = "get_summary") =>
              /\ result'.raised = StateError
              /\ LoaderUnchanged]_vars

\* parse_dates was called on a loader that never loaded
C11_Witness ==
    /\ op = "parse_dates"
    /\ raw_df = None
    /\ normalized_df = None
    /\ validation_result = None
    /\ result.raised = StateError

\* C18: when load() fails on a freshly constructed loader (no file, a file that
\* cannot be read, or a file without data rows), raw_df is still unset, so that a
\* following validate_schema, parse_dates or normalize_columns raises the state
\* error.
C18_FailedLoadLeavesRawUnset ==
    [][(self = new_loader /\ op' = "load" /\ result'.raised # "") =>
          /\ raw_df' = None
          /\ loader_validate_schema(self', hash_seed).out.raised = StateError
          /\ parse_dates(self').out.raised = StateError
          /\ loader_normalize_columns(self').out.raised = StateError]_vars

ProcessOrder == <<"load", "validate_schema", "parse_dates", "normalize_columns">>

IsPrefix(s, t) == Len(s) <= Len(t) /\ \A i \in 1..Len(s) : s[i] = t[i]

Unparsed(table) ==
    HasColumn(table, "sample_datetime") =>
        ~Contains(W_datetime, Lower(table.dtypes["sample_datetime"]))

\* C19: process() runs load, validate_schema, parse_dates and normalize_columns in
\* that order.  When load fails or the schema validation is invalid it raises
\* before parse_dates and normalize_columns: normalized_df is as before (unset if
\* it was unset, and get_summary then raises the state error) and the date column
\* of raw_df is unparsed.  When it returns, every step has run, the stored
\* validation result is valid and the table returned is the stored normalized_df.
C19_ProcessOrder ==
    [][op' = "process" =>
          /\ calls' # <<>>
          /\ IsPrefix(calls', ProcessOrder)
          /\ IF result'.raised # ""
             THEN /\ calls' \in {<<"load">>, <<"load", "validate_schema">>}
                  /\ result'.raised \in {"FileNotFoundError", "ValueError"}
                  /\ (calls' = <<"load", "validate_schema">>) =>
                        /\ IsResult(validation_result')
                        /\ ~validation_result'.is_valid
                  /\ (normalized_df = None) =>
                        /\ normalized_df' = None
                        /\ get_summary(self').out.raised = StateError
                  /\ normalized_df' = normalized_df
                  /\ (raw_df' # None) => Unparsed(raw_df')
             ELSE /\ calls' = ProcessOrder
                  /\ raw_df' # None
                  /\ IsResult(validation_result')
                  /\ validation_result'.is_valid
                  /\ validation_result' = validate_schema(file, RAW, hash_seed)
                  /\ normalized_df' # None
                  /\ result'.returned = normalized_df'
                  /\ ~Unparsed(raw_df')]_vars

\* process() raised on a file that lacks a required column
C19_Witness ==
    /\ op = "process"
    /\ result.raised = "ValueError"
    /\ calls = <<"load", "validate_schema">>
    /\ raw_df # None
    /\ raw_df.index > 0
    /\ IsResult(validation_result)
    /\ ~validation_result.is_valid
    /\ normalized_df = None

Passes ==
    {"validate_schema", "validate_data_quality", "validate_business_rules", "validate_all"}

FromCaller(r) ==
    \/ \E i \in 1..Len(r.errors) : r.errors[i] \in CallerMessages
    \/ \E i \in 1..Len(r.warnings) : r.warnings[i] \in CallerMessages
    \/ "note" \in DOMAIN r.info

FutureText == "{future_count} timestamps are in the future"

\* the warnings without the one about dates in the future
WithoutFuture(warnings) ==
    FilterSeq(warnings, {w \in Range(warnings) : Head(w) # FutureText})

\* the held result is what the last call of a pass returned, and the pass is
\* called again with the same variant
SamePassAgain ==
    /\ op \in Passes
    /\ adds = 0
    /\ op' = op
    /\ schema_type' = schema_type

\* C12 as stated: a pass called again on the same table, at any later moment,
\* returns the errors, warnings and info it returned before; what it returns holds
\* nothing that was added to an earlier result; the table is left as it was.
C12_SamePassSameResult ==
    [][(op' \in Passes /\ adds' = 0) =>
          /\ df' = df
          /\ ~FromCaller(result')
          /\ SamePassAgain =>
                /\ result'.errors = result.errors
                /\ result'.info = result.info
                /\ result'.warnings = result.warnings]_vars

\* C12 as amended: the errors and info are the same at any moment and so are the
\* warnings, but for the warning about dates in the future, which
\* validate_data_quality and validate_all give by the clock at the call.
C12_SamePassSameResultButFuture ==
    [][(op' \in Passes /\ adds' = 0) =>
          /\ df' = df
          /\ ~FromCaller(result')
          /\ SamePassAgain =>
                /\ result'.errors = result.errors
                /\ result'.info = result.info
                /\ result'.is_valid = result.is_valid
                /\ WithoutFuture(result'.warnings) = WithoutFuture(result.warnings)
                /\ (op \in {"validate_schema", "validate_business_rules"} \/ now' = ClockStart) =>
                      result'.warnings = result.warnings]_vars

\* validate_all was run after the clock moved on, on a table with a date of the
\* clock's last year: the warning about the future is gone, an error, a warning
\* and the info are there
C12_Witness ==
    /\ op = "validate_all"
    /\ adds = 0
    /\ now = ClockEnd
    /\ ClockEnd > ClockStart
    /\ validate_data_quality(df, schema_type, ClockStart).warnings
         # validate_data_quality(df, schema_type, now).warnings
    /\ result.errors # <<>>
    /\ result.warnings # <<>>
    /\ "date_range" \in DOMAIN result.info

\* the entries of the date column that hold text that does not parse
ParseFailures(d, st) ==
    LET col == d.data[date_col_of(st)]
    IN  IF Contains(W_datetime, Lower(d.dtypes[date_col_of(st)])) THEN {}
        ELSE {i \in 1..d.index : col[i] # NaN /\ ~col[i][1].wellformed}

Count(b) == IF b THEN 1 ELSE 0

MajorityNull(d, st) ==
    {c \in Range(critical_cols_of(st)) :
        HasColumn(d, c) /\ 100 * NullCount(d, c) > 50 * d.index}

\* every check of validate_data_quality has left in r what it owes for table d
QualityChecksRan(d, st, r, t) ==
    /\ \A c \in MajorityNull(d, st) : NullMessages(r.errors, c) = 1
    /\ (HasColumn(d, "value") /\ NonNullRows(d, "value") # {}) =>
          /\ "value_range" \in DOMAIN r.info
          /\ (\E i \in NonNullRows(d, "value") : d.data["value"][i][1] < MIN_VALUE) =>
                HasMessage(r.warnings, "{count} values below minimum threshold ({MIN_VALUE})")
    /\ HasColumn(d, date_col_of(st)) =>
          /\ (ParseFailures(d, st) # {}) <=>
                HasMessage(r.errors, "{invalid_dates} datetime values could not be parsed")
          /\ (ParsedYears(d, st) # {}) <=> ("date_range" \in DOMAIN r.info)
          /\ (\E y \in ParsedYears(d, st) : y > MAX_YEAR) <=>
                HasMessage(r.errors, "Dates after {MAX_YEAR} found (latest: {max_date.year})")
          /\ (\E y \in ParsedYears(d, st) : y < MIN_YEAR) <=>
                HasMessage(r.warnings, "Dates before {MIN_YEAR} found (earliest: {min_date.year})")
          /\ (\E y \in ParsedYears(d, st) : y > t) =>
                HasMessage(r.warnings, FutureText)
    /\ Len(r.errors) =
          Cardinality(MajorityNull(d, st))
          + Count(HasColumn(d, date_col_of(st)) /\ ParseFailures(d, st) # {})
          + Count(HasColumn(d, date_col_of(st)) /\ \E y \in ParsedYears(d, st) : y > MAX_YEAR)

UnknownCodes(d, c, valid) == {d.data[c][i][1] : i \in NonNullRows(d, c)} \ valid

\* every check of validate_business_rules has left in r what it owes for table d
BusinessChecksRan(d, st, r) ==
    /\ HasColumn(d, station_col_of(st)) =>
          /\ "unique_stations" \in DOMAIN r.info
          /\ (NonNullRows(d, station_col_of(st)) = {}) <=>
                HasMessage(r.errors, "No unique stations found")
    /\ HasColumn(d, param_col_of(st)) =>
          /\ {"unique_parameters", "parameters"} \subseteq DOMAIN r.info
          /\ (NonNullRows(d, param_col_of(st)) = {}) <=>
                HasMessage(r.errors, "No unique parameters found")
    /\ (HasColumn(d, qual_col_of(st)) /\ UnknownCodes(d, qual_col_of(st), VALID_QUALIFIERS) # {}) =>
          HasMessage(r.warnings, "Unknown qualifier codes found: ")
    /\ (HasColumn(d, "qa_status") /\ UnknownCodes(d, "qa_status", VALID_QA_STATUS) # {}) =>
          HasMessage(r.warnings, "Unknown QA status codes found: ")
    /\ Len(r.errors) =
          Count(HasColumn(d, station_col_of(st)) /\ NonNullRows(d, station_col_of(st)) = {})
          + Count(HasColumn(d, param_col_of(st)) /\ NonNullRows(d, param_col_of(st)) = {})

\* the missing-column error of validate_schema has not kept the warnings back
SchemaChecksRan(d, st, r) ==
    MissingRequired(d, st) # {} =>
        /\ HasMessage(r.errors, "Missing required columns: ")
        /\ (Undeclared(d, st) # {}) <=> HasMessage(r.warnings, "Unexpected columns found: ")
        /\ (Undeclared(d, st) # {}) <=> ("unexpected_columns" \in DOMAIN r.info)
        /\ (Mismatching(d, st) # {}) <=> HasMessage(r.warnings, "Data type mismatches found:")

\* the result of pass p, as returned by it or as held by validate_all
Returned(p) ==
    IF op = p /\ adds = 0 THEN <<result>>
    ELSE IF op = "validate_all" /\ p \in Range(calls)
    THEN <<subs[CHOOSE j \in 1..Len(calls) : calls[j] = p]>>
    ELSE <<>>

\* C13 as stated: but for validate_schema on a table without rows, every check of
\* a pass whose column is present runs and adds to the result, whatever the checks
\* before it found.
C13_NoEarlyAbort ==
    /\ \A i \in 1..Len(Returned("validate_schema")) :
          df.index > 0 => SchemaChecksRan(df, schema_type, Returned("validate_schema")[i])
    /\ \A i \in 1..Len(Returned("validate_data_quality")) :
          QualityChecksRan(df, schema_type, Returned("validate_data_quality")[i], now)
    /\ \A i \in 1..Len(Returned("validate_business_rules")) :
          BusinessChecksRan(df, schema_type, Returned("validate_business_rules")[i])

\* C13 as amended: each pass returns at once on an empty table (no row, or no
\* column): validate_schema and validate_data_quality with one error each,
\* validate_business_rules with a valid result that holds nothing.  On any other
\* table every check whose column is present runs and adds to the result, whatever
\* the checks before it found.
C13_NoEarlyAbortButEmpty ==
    /\ \A i \in 1..Len(Returned("validate_schema")) :
          IF df_empty(df)
          THEN Returned("validate_schema")[i]
                 = add_error(ValidationResult(TRUE), <<"DataFrame is empty (0 rows)">>)
          ELSE SchemaChecksRan(df, schema_type, Returned("validate_schema")[i])
    /\ \A i \in 1..Len(Returned("validate_data_quality")) :
          IF df_empty(df)
          THEN Returned("validate_data_quality")[i]
                 = add_error(ValidationResult(TRUE), <<"Cannot validate quality of empty DataFrame">>)
          ELSE QualityChecksRan(df, schema_type, Returned("validate_data_quality")[i], now)
    /\ \A i \in 1..Len(Returned("validate_business_rules")) :
          IF df_empty(df)
          THEN Returned("validate_business_rules")[i] = ValidationResult(TRUE)
          ELSE BusinessChecksRan(df, schema_type, Returned("validate_business_rules")[i])

\* validate_data_quality found dates that do not parse, and went on to the year
\* bound and to the dates in the future
C13_Witness ==
    /\ op = "validate_data_quality"
    /\ adds = 0
    /\ HasMessage(result.errors, "{invalid_dates} datetime values could not be parsed")
    /\ HasMessage(result.errors, "Dates after {MAX_YEAR} found (latest: {max_date.year})")
    /\ HasMessage(result.warnings, FutureText)
    /\ "date_range" \in DOMAIN result.info

ParseText == "{invalid_dates} datetime values could not be parsed"

MessagesOf(messages, text) == FilterSeq(messages, {m \in Range(messages) : Head(m) = text})

\* how many dates of the table parse to a year after t
After(d, st, t) ==
    LET col == d.data[date_col_of(st)]
    IN  IF Contains(W_datetime, Lower(d.dtypes[date_col_of(st)]))
        THEN Cardinality({i \in 1..d.index : col[i] # NaN /\ col[i][1] > t})
        ELSE Cardinality({i \in 1..d.index :
                            col[i] # NaN /\ col[i][1].wellformed /\ col[i][1].year > t})

\* C14: in validate_data_quality with the date column present, the error about
\* dates that could not be parsed is there exactly when some entry that is not
\* missing fails to parse, and it gives the number of such entries; missing
\* entries are not counted.  date_range, the year bounds and the future warning
\* are taken over the entries that parsed.
C14_UnparseableDates ==
    (op = "validate_data_quality" /\ ~df_empty(df) /\ HasColumn(df, date_col_of(schema_type))) =>
        LET failures == Cardinality(ParseFailures(df, schema_type))
            years == ParsedYears(df, schema_type)
            said == MessagesOf(result.errors, ParseText)
            future == MessagesOf(result.warnings, FutureText)
        IN  /\ (failures > 0) <=> (said # <<>>)
            /\ (failures > 0) => said = <<(<<ParseText, ToString(failures)>>)>>
            /\ (years # {}) <=> ("date_range" \in DOMAIN result.info)
            /\ (years # {}) =>
                  result.info["date_range"]
                    = [min |-> ToString(SetMin(years)), max |-> ToString(SetMax(years))]
            /\ (\E y \in years : y > MAX_YEAR) <=>
                  HasMessage(result.errors, "Dates after {MAX_YEAR} found (latest: {max_date.year})")
            /\ (\E y \in years : y < MIN_YEAR) <=>
                  HasMessage(result.warnings, "Dates before {MIN_YEAR} found (earliest: {min_date.year})")
            /\ Len(future) <= 1
            /\ (After(df, schema_type, now) > 0) => future # <<>>
            /\ (future # <<>>) =>
                  \E t \in ClockStart..now :
                      future[1] = <<FutureText, ToString(After(df, schema_type, t))>>

\* a missing date and one that does not parse: the error counts one
C14_Witness ==
    /\ op = "validate_data_quality"
    /\ HasColumn(df, date_col_of(schema_type))
    /\ df.index = 2
    /\ NullCount(df, date_col_of(schema_type)) = 1
    /\ Cardinality(ParseFailures(df, schema_type)) = 1
    /\ MessagesOf(result.errors, ParseText) = <<(<<ParseText, "1">>)>>
    /\ "date_range" \notin DOMAIN result.info

DuplicateText == "{duplicate_count} duplicate records found (same timestamp + station + parameter)"

\* the (timestamp, station, parameter) keys of the rows of a table that has the
\* three columns
Keys(d, st) ==
    {<<d.data[id_cols_of(st)[1]][i], d.data[id_cols_of(st)[2]][i], d.data[id_cols_of(st)[3]][i]>> :
        i \in 1..d.index}

\* rows beyond the first of each key; none when one of the three columns is absent
Duplicates(d, st) ==
    IF \A c \in Range(id_cols_of(st)) : HasColumn(d, c)
    THEN d.index - Cardinality(Keys(d, st))
    ELSE 0

\* C15: in validate_business_rules, with the timestamp, station and parameter
\* columns present the duplicate count is the number of rows less the number of
\* distinct keys (1 for two rows of one key, whatever their values); a positive
\* count gives exactly one warning with the count and the duplicate_count info,
\* and no error; with one of the columns absent nothing is reported.
C15_DuplicateCount ==
    op = "validate_business_rules" =>
        LET dup == Duplicates(df, schema_type)
            said == MessagesOf(result.warnings, DuplicateText)
        IN  /\ (dup > 0) =>
                  /\ said = <<(<<DuplicateText, ToString(dup)>>)>>
                  /\ "duplicate_count" \in DOMAIN result.info
                  /\ result.info["duplicate_count"] = dup
            /\ (dup = 0) =>
                  /\ said = <<>>
                  /\ "duplicate_count" \notin DOMAIN result.info
            /\ MessagesOf(result.errors, DuplicateText) = <<>>
            /\ (dup > 0 /\ \A c \in {station_col_of(schema_type), param_col_of(schema_type)} :
                               NonNullRows(df, c) # {}) => result.is_valid

\* two rows of one key and two values: one duplicate
C15_Witness ==
    /\ op = "validate_business_rules"
    /\ df.index = 2
    /\ HasColumn(df, "value")
    /\ df.data["value"][1] # df.data["value"][2]
    /\ "duplicate_count" \in DOMAIN result.info
    /\ result.info["duplicate_count"] = 1
    /\ result.is_valid

QualifierText == "Unknown qualifier codes found: "

QAStatusText == "Unknown QA status codes found: "

\* the codes the check of column c owes a warning for
Unknown(d, c, valid) == IF HasColumn(d, c) THEN UnknownCodes(d, c, valid) ELSE {}

\* at most one warning of the text, there exactly when codes is not empty, naming
\* each of the codes once and nothing else
OneWarningNaming(warnings, text, codes) ==
    LET said == MessagesOf(warnings, text)
    IN  /\ Len(said) <= 1
        /\ (codes # {}) <=> (said # <<>>)
        /\ (said # <<>>) =>
              /\ Range(Tail(said[1])) = codes
              /\ Len(Tail(said[1])) = Cardinality(codes)

\* C16: in validate_business_rules the qualifier column of the variant, when
\* present, gets at most one warning, there exactly when some non-null value is
\* outside the valid qualifiers, naming each such code once and no valid code.  The
\* QA status check does the same with the valid QA codes, on the column named
\* qa_status under either variant.
C16_UnknownCodes ==
    op = "validate_business_rules" =>
        /\ OneWarningNaming(result.warnings, QualifierText,
                            Unknown(df, qual_col_of(schema_type), VALID_QUALIFIERS))
        /\ OneWarningNaming(result.warnings, QAStatusText,
                            Unknown(df, "qa_status", VALID_QA_STATUS))
        /\ MessagesOf(result.errors, QualifierText) = <<>>
        /\ MessagesOf(result.errors, QAStatusText) = <<>>

\* a qualifier column of '<' and 'Z': one warning, naming Z
C16_Witness ==
    /\ op = "validate_business_rules"
    /\ HasColumn(df, qual_col_of(schema_type))
    /\ {df.data[qual_col_of(schema_type)][i] : i \in 1..df.index} = {<<"<">>, <<"Z">>}
    /\ MessagesOf(result.warnings, QualifierText) = <<(<<QualifierText, "Z">>)>>

StationLengthText == "Station IDs exceed max length ({max_len} > {MAX_STATION_ID_LENGTH})"

\* a column that is present and holds no value
HoldsNothing(d, c) == HasColumn(d, c) /\ NonNullRows(d, c) = {}

\* what validate_business_rules owes in r for the validity of table d
BusinessValidity(d, st, r) ==
    /\ ~r.is_valid <=> (HoldsNothing(d, station_col_of(st)) \/ HoldsNothing(d, param_col_of(st)))
    /\ Range(r.errors) \subseteq {<<"No unique stations found">>, <<"No unique parameters found">>}
    /\ ~HasColumn(d, station_col_of(st)) =>
          /\ "unique_stations" \notin DOMAIN r.info
          /\ ~HasMessage(r.errors, "No unique stations found")
          /\ ~HasMessage(r.warnings, StationLengthText)
    /\ ~HasColumn(d, param_col_of(st)) =>
          /\ DOMAIN r.info \cap {"unique_parameters", "parameters"} = {}
          /\ ~HasMessage(r.errors, "No unique parameters found")
    /\ ~HasColumn(d, qual_col_of(st)) => ~HasMessage(r.warnings, QualifierText)
    /\ ~HasColumn(d, "qa_status") => ~HasMessage(r.warnings, QAStatusText)

\* C17: on a table that is not empty, validate_business_rules is invalid exactly
\* when the station column is present without any value or the parameter column
\* is present without any value; a column that is absent adds no error, warning
\* or info of its check; duplicates, oversized station ids and unknown codes add
\* warnings only.
C17_BusinessValidity ==
    \A i \in 1..Len(Returned("validate_business_rules")) :
        ~df_empty(df) =>
            BusinessValidity(df, schema_type, Returned("validate_business_rules")[i])

\* a valid result that warns of an oversized station id and of unknown codes
C17_Witness ==
    /\ op = "validate_business_rules"
    /\ adds = 0
    /\ result.is_valid
    /\ HasMessage(result.warnings, StationLengthText)
    /\ HasMessage(result.warnings, QualifierText)
    /\ HasMessage(result.warnings, QAStatusText)
    /\ ~HasColumn(df, "station_id")

\* the loader holds a Raw table with rows that validate_schema finds valid as
\* Raw, and the table normalize_columns made of it
NormalizedFromValid ==
    /\ raw_df # None
    /\ normalized_df # None
    /\ ~df_empty(raw_df)
    /\ validate_schema(raw_df, RAW, hash_seed).is_valid

\* C20: the table normalize_columns makes of a Raw table with rows that is valid
\* as Raw has only known Normalized columns and every required one, and as many
\* rows; validate_schema as Normalized finds it valid, with no missing and no
\* unexpected column; the raw table is as it was loaded.
C20_NormalizationKeepsValidity ==
    NormalizedFromValid =>
        /\ Range(normalized_df.columns) \subseteq NORMALIZED_ALL_COLUMNS
        /\ Range(NORMALIZED_REQUIRED_COLUMNS) \subseteq Range(normalized_df.columns)
        /\ Len(normalized_df.columns) = Cardinality(Range(normalized_df.columns))
        /\ normalized_df.index = raw_df.index
        /\ raw_df = file
        /\ (op = "validate_schema" /\ schema_type = NORMALIZED /\ df = normalized_df) =>
              /\ result.is_valid
              /\ result.errors = <<>>
              /\ DOMAIN result.info \cap {"missing_columns", "unexpected_columns"} = {}
              /\ ~HasMessage(result.warnings, "Unexpected columns found: ")
              /\ result.info["row_count"] = raw_df.index

\* a file of every Raw column, valid as Raw, normalized and validated as Normalized
C20_Witness ==
    /\ NormalizedFromValid
    /\ Range(raw_df.columns) = RAW_ALL_COLUMNS
    /\ raw_df.index > 1
    /\ op = "validate_schema"
    /\ schema_type = NORMALIZED
    /\ df = normalized_df
    /\ result.is_valid

====
